---- MODULE Spec2Model ----
(***************************************************************************)
(* Litres_Parser: the crawl engine.                                        *)
(*                                                                         *)
(* The store (storage.py) is a SQLite file with a queue table and a books  *)
(* table.  A crawl run (cli.py, cmd_crawl) is one OS process with its own  *)
(* connection: it recovers interrupted rows, then loops claiming a batch   *)
(* (SELECT, then UPDATE + commit), running the batch on a thread pool and  *)
(* writing each result back (upsert_book + commit, then mark_queue_* +     *)
(* commit).  Every SQL statement / commit is one step; other processes on  *)
(* the same file, and a kill of the process, can fall between any two.     *)
(*                                                                         *)
(* The rate limiter (http.py, polite_sleep) is modelled with a discrete    *)
(* clock in its own specification, RateSpec.                               *)
(***************************************************************************)
EXTENDS Integers, Sequences, FiniteSets, TLC

VARIABLES
    queue,            \* queue table: url -> [status, attempts, last_error, discovered_at]
    books,            \* books table: url -> [status, error, fields]
    pc,               \* per crawl process: where cmd_crawl stands
    args,             \* per crawl process: [workers, limit] of the command line
    urls,             \* per crawl process: the list `urls` of the current batch
    futs,             \* per crawl process: url -> state of its future in the pool
    cur,              \* per crawl process: the url `u` whose result is being written
    processed,        \* per crawl process: the counter `processed`
    starts,           \* number of commands started so far
    served,           \* url -> the page the site served when the url was last fetched
    hist,             \* per crawl process: what the run claimed and resolved
    clock,            \* time.monotonic()
    next_allowed_ts,  \* http._next_allowed_ts
    rate_lock,        \* http._rate_lock: the thread holding it, or NoThread
    tpc,              \* per thread: position inside polite_sleep
    tlocal,           \* per thread: the locals delay, now, wake_at, and the wake-up time
    calls,            \* completed polite_sleep calls: [thread, slot, returned_at]
    reviews,          \* reviews table: the book urls that have review rows
    conn,             \* the connection of an add / discover command
    fetch,            \* one call chain worker -> parse_book_page -> fetch_text
    revs,             \* reviews table by review_id, as upsert_reviews writes it
    disc,             \* _stream_book_urls and the sitemap walk it drives
    cat,              \* the catalog walk: genres and the pages of the current genre
    enq,              \* one _enqueue_streaming call
    parse,            \* one parse_book_page call: the page fetched and the result
    norm              \* one call of a normalizer: its input and its output

crawlVars == <<queue, books, pc, args, urls, futs, cur, processed, starts, served, hist>>
rateVars == <<clock, next_allowed_ts, rate_lock, tpc, tlocal, calls>>
extraVars == <<revs, disc, cat, enq, parse, norm>>
otherVars == <<conn, fetch, extraVars>>
vars == <<queue, books, pc, args, urls, futs, cur, processed, starts, served, hist,
          clock, next_allowed_ts, rate_lock, tpc, tlocal, calls, reviews, conn, fetch,
          revs, disc, cat, enq, parse, norm>>

----------------------------------------------------------------------------
(* Bounds of the model *)

NumUrls == 4
NumSharedUrls == 2
MaxStarts == 2
MaxLimit == 1
NumThreads == 2
MaxClock == 3
MaxRetries == 2
MaxCmds == 3
MaxReviews == 2
MaxPages == 2
MaxBatch == 2
MaxStream == 3
MaxInput == 3

URLs == 1..NumUrls
Procs == {1, 2}
\* args.limit: None, or a number
NoLimit == [given |-> FALSE, n |-> 0]
Limit(k) == [given |-> TRUE, n |-> k]
WorkerCounts == {0, 1, 2}
Limits == {NoLimit} \cup {Limit(k) : k \in 0..MaxLimit}

Min(a, b) == IF a <= b THEN a ELSE b
Max(a, b) == IF a >= b THEN a ELSE b

----------------------------------------------------------------------------
(* Text values.  A TEXT column holds NULL or a string; a string is kept as *)
(* its content and its length, so that a prefix differs from the whole.    *)

NULL == [null |-> TRUE, text |-> "", len |-> 0]
Str(t, n) == [null |-> FALSE, text |-> t, len |-> n]

ErrorCap == 2000

\* error[:2000]
Truncate(e) == [e EXCEPT !.len = Min(e.len, ErrorCap)]

\* `res.error or "unknown error"`
OrUnknown(e) == IF e.null \/ e.len = 0 THEN Str("unknown error", 13) ELSE e

----------------------------------------------------------------------------
(* The page extractor *)

Fields == {"title", "price"}
EmptyFields == [f \in Fields |-> ""]

\* What one fetch of a book URL can meet.
Pages == {"book", "ddos", "author", "listing", "down", "crash"}

\* The pages the site may serve for url u in this model.
PagesOf(u) ==
    IF u % 2 = 1 THEN {"book", "ddos", "crash"} ELSE {"book", "listing", "down"}

BlockedError == Str("Blocked by DDoS-Guard (challenge page)", 38)
NotBookOgError == Str("Not a book page (og:url=/author/)", 33)
NotBookError == Str("Not a book page", 15)
FetchError == Str("Failed to fetch", 15)
CrashError == Str("worker exception", 2600)

\* A string made of the characters of a sequence
RECURSIVE Join(_)
Join(cs) == IF cs = <<>> THEN "" ELSE Head(cs) \o Join(Tail(cs))

\* The price text the extractor finds on the book page of the model: f"{p} {cur}"
RawPrice == <<"5", "6", "9", " ", "R", "U", "B">>

\* What the guards of parse_book_page look at in a fetched page: a <title> with
\* ddos-guard in it, the og:url / twitter:url meta ("" when there is none), a Book or
\* Product JSON-LD object, a .book__name--wrapper block, a
\* .book-factoids__total-rating block
OgUrls == {"", "/book/", "/author/", "/account/", "/cart/"}
Htmls == [ddos_title : BOOLEAN, og_url : OgUrls, jsonld : BOOLEAN,
          name_block : BOOLEAN, factoid_block : BOOLEAN]

\* The html of the pages of the crawl model
HtmlOf(page) ==
    CASE page = "book" -> [ddos_title |-> FALSE, og_url |-> "/book/", jsonld |-> TRUE,
                           name_block |-> TRUE, factoid_block |-> TRUE]
      [] page = "ddos" -> [ddos_title |-> TRUE, og_url |-> "", jsonld |-> FALSE,
                           name_block |-> FALSE, factoid_block |-> FALSE]
      [] page = "author" -> [ddos_title |-> FALSE, og_url |-> "/author/", jsonld |-> FALSE,
                             name_block |-> FALSE, factoid_block |-> FALSE]
      [] OTHER -> [ddos_title |-> FALSE, og_url |-> "", jsonld |-> FALSE,
                   name_block |-> FALSE, factoid_block |-> FALSE]

\* f"Not a book page (og:url={og_url})"
NotBookOg(og) == Str("Not a book page (og:url=" \o og \o ")", 25 + Len(og))

\* "Not a book page" + extra
NotBook(og) == IF og # "" THEN NotBookOg(og) ELSE NotBookError

\* data of a page parsed as a book: the raw texts found on it
BookData == [f \in Fields |-> IF f = "title" THEN "Title" ELSE Join(RawPrice)]

\* Mutant: the og:url guard comes before the DDoS-Guard guard.
ParseHtmlOgFirst(h) ==
    IF h.og_url \in {"/author/", "/account/", "/cart/"}
    THEN [ok |-> FALSE, error |-> NotBookOg(h.og_url), data |-> EmptyFields]
    ELSE IF h.ddos_title
    THEN [ok |-> FALSE, error |-> BlockedError, data |-> EmptyFields]
    ELSE IF ~h.jsonld /\ ~h.name_block /\ ~h.factoid_block
    THEN [ok |-> FALSE, error |-> NotBook(h.og_url), data |-> EmptyFields]
    ELSE [ok |-> TRUE, error |-> NULL, data |-> BookData]

\* parse_book_page after the fetch: the DDoS-Guard guard, the og:url guard, the
\* extraction, the guard on book-ish structure, the data
ParseHtml(h) ==
    IF h.ddos_title
    THEN [ok |-> FALSE, error |-> BlockedError, data |-> EmptyFields]
    ELSE IF h.og_url \in {"/author/", "/account/", "/cart/"}
    THEN [ok |-> FALSE, error |-> NotBookOg(h.og_url), data |-> EmptyFields]
    ELSE IF ~h.jsonld /\ ~h.name_block /\ ~h.factoid_block
    THEN [ok |-> FALSE, error |-> NotBook(h.og_url), data |-> EmptyFields]
    ELSE [ok |-> TRUE, error |-> NULL, data |-> BookData]

\* Mutant: the DDoS-Guard guard is missing, a challenge page is parsed as a book.
ParseBookPageNoGuard(page) ==
    CASE page = "down" -> [ok |-> FALSE, error |-> FetchError, data |-> EmptyFields]
      [] page = "author" -> [ok |-> FALSE, error |-> NotBookOgError, data |-> EmptyFields]
      [] page = "listing" -> [ok |-> FALSE, error |-> NotBookError, data |-> EmptyFields]
      [] OTHER -> [ok |-> TRUE, error |-> NULL,
                   data |-> [f \in Fields |-> IF f = "title" THEN "Title" ELSE "569 RUB"]]

\* BookParseResult of parse_book_page for a page that did not make it raise.
ParseBookPage(page) ==
    IF page = "down"
    THEN [ok |-> FALSE, error |-> FetchError, data |-> EmptyFields]
    ELSE ParseHtml(HtmlOf(page))

\* One parse_book_page call: html is the page fetched, res the BookParseResult
NoHtml == [ddos_title |-> FALSE, og_url |-> "", jsonld |-> FALSE,
           name_block |-> FALSE, factoid_block |-> FALSE]
NoResult == [ok |-> FALSE, error |-> NULL, data |-> EmptyFields]
NoParse == [pc |-> "idle", html |-> NoHtml, res |-> NoResult]

\* html = fetch_text(session, url); a failed fetch is returned as the error
ParseFetch ==
    /\ parse.pc = "idle"
    /\ \/ parse' = [parse EXCEPT !.pc = "returned",
                                 !.res = [ok |-> FALSE, error |-> FetchError,
                                          data |-> EmptyFields]]
       \/ \E h \in Htmls : parse' = [parse EXCEPT !.pc = "fetched", !.html = h]
    /\ UNCHANGED <<crawlVars, rateVars, reviews, conn, fetch, revs, disc, cat, enq, norm>>

\* The rest of parse_book_page
ParseReturn ==
    /\ parse.pc = "fetched"
    /\ parse' = [parse EXCEPT !.pc = "returned", !.res = ParseHtml(parse.html)]
    /\ UNCHANGED <<crawlVars, rateVars, reviews, conn, fetch, revs, disc, cat, enq, norm>>

ParseNext == ParseFetch \/ ParseReturn

(***************************************************************************)
(* normalizer.py. A text is the sequence of its characters; a date text is *)
(* the sequence of its parts.                                              *)
(***************************************************************************)
Digits == {"0", "1", "2", "3", "4", "5", "6", "7", "8", "9"}
Chars == {"5", "0", ",", ".", " ", "R"}
Free == <<"F", "r", "e", "e">>
Age18 == <<"1", "8", "+">>
IsoDay == "2023-11-20"
IsoTime == "T13:48:18"
DateParts == {IsoDay, IsoTime, "x"}

\* Sequences over S of at most n elements
SeqsUpTo(S, n) == UNION {[1..k -> S] : k \in 0..n}

CharInputs == SeqsUpTo(Chars, MaxInput) \cup {RawPrice, Free, Age18}
DateInputs == SeqsUpTo(DateParts, MaxInput)

\* The digits a text starts with: what \d+ matches at its start
RECURSIVE DigitRun(_)
DigitRun(s) ==
    IF s = <<>> \/ Head(s) \notin Digits THEN <<>>
    ELSE <<Head(s)>> \o DigitRun(Tail(s))

\* re.search(r'(\d+)', s): group 1 of the leftmost match, <<>> when there is none
RECURSIVE FirstDigits(_)
FirstDigits(s) ==
    IF s = <<>> THEN <<>>
    ELSE IF Head(s) \in Digits THEN DigitRun(s)
    ELSE FirstDigits(Tail(s))

\* re.search(r'(\d+(?:[.,]\d+)?)', s): the whole and the decimal digits of the leftmost
\* match, both <<>> when there is none
RECURSIVE FirstNumber(_)
FirstNumber(s) ==
    IF s = <<>> THEN [whole |-> <<>>, decimals |-> <<>>]
    ELSE IF Head(s) \in Digits
    THEN LET whole == DigitRun(s)
             rest == SubSeq(s, Len(whole) + 1, Len(s))
         IN [whole |-> whole,
             decimals |-> IF rest # <<>> /\ Head(rest) \in {".", ","}
                          THEN DigitRun(Tail(rest)) ELSE <<>>]
    ELSE FirstNumber(Tail(s))

\* The digits before the point as float prints them: no leading zeros, "0" at least
RECURSIVE WholeDigits(_)
WholeDigits(ds) ==
    IF ds = <<>> THEN <<"0">>
    ELSE IF Head(ds) = "0" /\ Len(ds) > 1 THEN WholeDigits(Tail(ds))
    ELSE ds

\* The digits after the point as str(float) prints them: no trailing zeros, "0" at least
RECURSIVE DecimalDigits(_)
DecimalDigits(ds) ==
    IF ds = <<>> THEN <<"0">>
    ELSE IF ds[Len(ds)] = "0" /\ Len(ds) > 1 THEN DecimalDigits(SubSeq(ds, 1, Len(ds) - 1))
    ELSE ds

\* The digits after the point of f"{x:.2f}", for a number written with at most two
\* decimals (the texts of the model have no more)
TwoDecimals(ds) ==
    IF ds = <<>> THEN <<"0", "0">>
    ELSE IF Len(ds) = 1 THEN ds \o <<"0">>
    ELSE ds

\* s.replace(a, b) for single characters
Replace(s, a, b) == [i \in 1..Len(s) |-> IF s[i] = a THEN b ELSE s[i]]

\* s.strip() for blanks
RECURSIVE Strip(_)
Strip(s) ==
    IF s = <<>> THEN <<>>
    ELSE IF Head(s) = " " THEN Strip(Tail(s))
    ELSE IF s[Len(s)] = " " THEN Strip(SubSeq(s, 1, Len(s) - 1))
    ELSE s

\* float(s) of a text of digits, points and blanks: whether it is a number, and its
\* digits before and after the point
ParseFloat(s) ==
    LET t == Strip(s)
        whole == DigitRun(t)
        rest == SubSeq(t, Len(whole) + 1, Len(t))
        decimals == IF rest = <<>> THEN <<>> ELSE Tail(rest)
    IN [ok |-> /\ rest = <<>> \/ Head(rest) = "."
               /\ DigitRun(decimals) = decimals
               /\ whole # <<>> \/ decimals # <<>>,
        whole |-> whole, decimals |-> decimals]

\* datetime.fromisoformat accepts the day and the day followed by the time
IsoDates == {<<IsoDay>>, <<IsoDay, IsoTime>>}

normalize_date(iso_date) ==
    IF iso_date = <<>> THEN <<>>
    ELSE IF iso_date \in IsoDates THEN <<"20.11.2023">>
    ELSE iso_date

normalize_price(price) ==
    LET match == FirstNumber(price)
    IN IF price = <<>> \/ match.whole = <<>> THEN <<>>
       ELSE WholeDigits(match.whole) \o <<",">> \o TwoDecimals(match.decimals)

normalize_age_restriction(age) == FirstDigits(age)

normalize_rating(rating) ==
    LET float_rating == ParseFloat(Replace(rating, ",", "."))
    IN IF rating = <<>> \/ ~float_rating.ok THEN <<>>
       ELSE WholeDigits(float_rating.whole) \o <<".">> \o DecimalDigits(float_rating.decimals)

normalize_count(count) == FirstDigits(SelectSeq(count, LAMBDA c : c # " "))

Normalizers == {"normalize_date", "normalize_price", "normalize_age_restriction",
                "normalize_rating", "normalize_count"}
InputsOf(fn) == IF fn = "normalize_date" THEN DateInputs ELSE CharInputs
Normalize(fn, s) ==
    CASE fn = "normalize_date" -> normalize_date(s)
      [] fn = "normalize_price" -> normalize_price(s)
      [] fn = "normalize_age_restriction" -> normalize_age_restriction(s)
      [] fn = "normalize_rating" -> normalize_rating(s)
      [] OTHER -> normalize_count(s)

NoNorm == [pc |-> "idle", fn |-> "", input |-> <<>>, out |-> <<>>]

\* A normalizer is called with a text
NormCall ==
    /\ norm.pc = "idle"
    /\ \E fn \in Normalizers : \E s \in InputsOf(fn) :
         norm' = [norm EXCEPT !.pc = "called", !.fn = fn, !.input = s]
    /\ UNCHANGED <<crawlVars, rateVars, reviews, conn, fetch, revs, disc, cat, enq, parse>>

\* It returns
NormReturn ==
    /\ norm.pc = "called"
    /\ norm' = [norm EXCEPT !.pc = "returned", !.out = Normalize(norm.fn, norm.input)]
    /\ UNCHANGED <<crawlVars, rateVars, reviews, conn, fetch, revs, disc, cat, enq, parse>>

NormNext == NormCall \/ NormReturn

\* The future of worker(u): an exception, or the BookParseResult.
Worker(page) ==
    IF page = "crash"
    THEN [raised |-> TRUE, exc |-> CrashError, res |-> ParseBookPage("down")]
    ELSE [raised |-> FALSE, exc |-> NULL, res |-> ParseBookPage(page)]

----------------------------------------------------------------------------
(* storage.py *)

Pending(q) == {u \in DOMAIN q : q[u].status = "pending"}

Range(s) == {s[i] : i \in DOMAIN s}

\* Mutant: the pending rows are taken in any order.
SelectPendingUnordered(q, n) ==
    LET P == Pending(q)
        k == Min(n, Cardinality(P))
    IN {s \in [1..k -> P] : \A i, j \in 1..k : i < j => s[i] # s[j]}

\* SELECT url FROM queue WHERE status='pending' ORDER BY discovered_at LIMIT n:
\* the lists the statement may return (rows of equal discovered_at come in any order).
SelectPending(q, n) ==
    LET P == Pending(q)
        k == Min(n, Cardinality(P))
    IN {s \in [1..k -> P] :
          /\ \A i, j \in 1..k : i < j =>
                 /\ s[i] # s[j]
                 /\ q[s[i]].discovered_at <= q[s[j]].discovered_at
          /\ \A u \in P \ Range(s) : \A i \in 1..k :
                 q[s[i]].discovered_at <= q[u].discovered_at}

\* Mutant: the claim does not count the attempt.
MarkInProgressNoCount(q, batch) ==
    [u \in DOMAIN q |->
        IF u \in Range(batch) THEN [q[u] EXCEPT !.status = "in_progress"] ELSE q[u]]

\* UPDATE queue SET status='in_progress', attempts=attempts+1 WHERE url=?  (executemany)
MarkInProgress(q, batch) ==
    [u \in DOMAIN q |->
        IF u \in Range(batch)
        THEN [q[u] EXCEPT !.status = "in_progress", !.attempts = @ + 1]
        ELSE q[u]]

\* Mutant: the update of the done row is lost.
mark_queue_done_lost(q, u) == q

\* UPDATE queue SET status='done', last_error=NULL WHERE url=?
mark_queue_done(q, u) ==
    [x \in DOMAIN q |->
        IF x = u THEN [q[x] EXCEPT !.status = "done", !.last_error = NULL] ELSE q[x]]

\* UPDATE queue SET status='failed', last_error=? WHERE url=?
mark_queue_failed(q, u, error) ==
    [x \in DOMAIN q |->
        IF x = u
        THEN [q[x] EXCEPT !.status = "failed", !.last_error = Truncate(error)]
        ELSE q[x]]

\* Mutant: ON CONFLICT leaves the error column of the stored row as it was.
upsert_book_keeps_error(b, u, row) ==
    [x \in DOMAIN b \cup {u} |->
        IF x # u THEN b[x]
        ELSE IF u \in DOMAIN b THEN [row EXCEPT !.error = b[u].error] ELSE row]

\* INSERT INTO books ... ON CONFLICT(url) DO UPDATE SET <every column>
upsert_book(b, u, row) ==
    [x \in DOMAIN b \cup {u} |-> IF x = u THEN row ELSE b[x]]

\* The book pages on which the site shows reviews (every fourth one in this model).
HasReviews(u) == u % 4 = 1

\* Whether a finished parse carries reviews (`with_reviews and res.reviews`): never
\* without the option, with a failed parse or for a book without reviews; with the
\* option, the reviews of the page when they could be read.
ReviewsFound(u, f) ==
    IF ~f.raised /\ f.res.ok /\ HasReviews(u) THEN BOOLEAN ELSE {FALSE}

\* INSERT INTO reviews ... ON CONFLICT(review_id) DO UPDATE: the rows of book url u.
upsert_reviews(r, u) == r \cup {u}

\* Mutant: no recovery at startup.
RecoverNothing(q) == q

\* Mutant: the recovery also puts failed entries back (WHERE status != 'done').
RecoverFailedToo(q) ==
    [u \in DOMAIN q |->
        IF q[u].status \in {"in_progress", "failed"}
        THEN [q[u] EXCEPT !.status = "pending"] ELSE q[u]]

\* UPDATE queue SET status='pending' WHERE status='in_progress'
RecoverInterrupted(q) ==
    [u \in DOMAIN q |->
        IF q[u].status = "in_progress" THEN [q[u] EXCEPT !.status = "pending"] ELSE q[u]]

----------------------------------------------------------------------------
(* cli.py, cmd_crawl *)

\* The row written for a failed url: every extracted field empty.
ErrorRow(err) == [status |-> "error", error |-> err, fields |-> EmptyFields]

\* res.data of a successful parse.
OkRow(res) == [status |-> "ok", error |-> NULL, fields |-> res.data]

\* The error text of a finished future that did not succeed.
ErrOf(f) == IF f.raised THEN f.exc ELSE OrUnknown(f.res.error)

Succeeded(f) == ~f.raised /\ f.res.ok

\* Mutant: res.data is written whatever the outcome.
RowOfAlwaysData(f) == OkRow(f.res)

\* The books row the as_completed loop writes for a finished future.
RowOf(f) == IF Succeeded(f) THEN OkRow(f.res) ELSE ErrorRow(ErrOf(f))

\* Mutant: a failure escapes before the queue row is marked.
MarkOfFailureEscapes(q, u, f) ==
    IF Succeeded(f) THEN mark_queue_done(q, u) ELSE q

\* Mutant: a failed url goes back to pending.
MarkOfRequeues(q, u, f) ==
    IF Succeeded(f) THEN mark_queue_done(q, u) ELSE [q EXCEPT ![u].status = "pending"]

\* The queue update that follows the books row.
MarkOf(q, u, f) ==
    IF Succeeded(f) THEN mark_queue_done(q, u) ELSE mark_queue_failed(q, u, ErrOf(f))

\* Mutant: the batch is not capped by what is left of the limit.
BatchLimitUncapped(a, done) == Max(1, a.workers * 3)

\* Mutant: the batch is one url per worker.
BatchLimitPerWorker(a, done) ==
    IF ~a.limit.given THEN IF a.workers >= 1 THEN a.workers ELSE 1
    ELSE IF a.limit.n - done <= 0 THEN 0
    ELSE IF a.workers >= 1 /\ a.workers <= a.limit.n - done THEN a.workers
    ELSE IF a.workers >= 1 THEN a.limit.n - done ELSE IF 1 <= a.limit.n - done THEN 1 ELSE 0

\* batch_limit = max(1, workers * 3), capped by the remaining limit
BatchLimit(a, done) ==
    LET base == Max(1, a.workers * 3)
    IN IF ~a.limit.given THEN base ELSE Min(base, Max(0, a.limit.n - done))

\* A future: its state, and once finished the page its worker met (its result is
\* Worker(page)).
NoFuture == [st |-> "none", page |-> "none"]
Out(f) == Worker(f.page)
NoFutures == [u \in URLs |-> NoFuture]
NoArgs == [workers |-> 0, limit |-> NoLimit]
NoHist == [claimed |-> {}, resolved |-> {}, twice |-> {}]

Stopped == {"idle", "returned", "killed", "crashed"}

\* A crawl command is started: connect_db, init_db on an existing store.
Start(p) ==
    /\ pc[p] \in Stopped
    /\ starts < MaxStarts
    /\ \E w \in WorkerCounts, l \in Limits :
          args' = [args EXCEPT ![p] = [workers |-> w, limit |-> l]]
    /\ pc' = [pc EXCEPT ![p] = "recover"]
    /\ starts' = starts + 1
    /\ urls' = [urls EXCEPT ![p] = <<>>]
    /\ futs' = [futs EXCEPT ![p] = NoFutures]
    /\ cur' = [cur EXCEPT ![p] = 0]
    /\ processed' = [processed EXCEPT ![p] = 0]
    /\ hist' = [hist EXCEPT ![p] = NoHist]
    /\ UNCHANGED <<queue, books, served, reviews>>
    /\ UNCHANGED rateVars
    /\ UNCHANGED otherVars

\* The recovery update and its commit.
Recover(p) ==
    /\ pc[p] = "recover"
    /\ queue' = RecoverInterrupted(queue)
    /\ pc' = [pc EXCEPT ![p] = "loop"]
    /\ UNCHANGED <<books, args, urls, futs, cur, processed, starts, served, hist, reviews>>
    /\ UNCHANGED rateVars
    /\ UNCHANGED otherVars

\* Top of the while loop: the limit test and the SELECT of the next batch.
CrawlSelect(p) ==
    /\ pc[p] = "loop"
    /\ IF args[p].limit.given /\ processed[p] >= args[p].limit.n
       THEN /\ pc' = [pc EXCEPT ![p] = "returned"]
            /\ urls' = [urls EXCEPT ![p] = <<>>]
       ELSE \E s \in SelectPending(queue, BatchLimit(args[p], processed[p])) :
              /\ urls' = [urls EXCEPT ![p] = s]
              /\ pc' = [pc EXCEPT ![p] = IF s = <<>> THEN "returned" ELSE "claimed"]
    /\ UNCHANGED <<queue, books, args, futs, cur, processed, starts, served, hist, reviews>>
    /\ UNCHANGED rateVars
    /\ UNCHANGED otherVars

\* The UPDATE of the selected rows and its commit, then the pool is created and
\* every url submitted; ThreadPoolExecutor(max_workers <= 0) raises ValueError.
CrawlClaim(p) ==
    /\ pc[p] = "claimed"
    /\ queue' = MarkInProgress(queue, urls[p])
    /\ hist' = [hist EXCEPT ![p].claimed = @ \cup Range(urls[p])]
    /\ served' = [u \in URLs |-> IF u \in Range(urls[p]) THEN "none" ELSE served[u]]
    /\ IF args[p].workers >= 1
       THEN /\ pc' = [pc EXCEPT ![p] = "pool"]
            /\ futs' = [futs EXCEPT ![p] =
                          [u \in URLs |-> IF u \in Range(urls[p])
                                          THEN [NoFuture EXCEPT !.st = "queued"]
                                          ELSE NoFuture]]
       ELSE /\ pc' = [pc EXCEPT ![p] = "crashed"]
            /\ futs' = futs
    /\ UNCHANGED <<books, args, urls, cur, processed, starts, reviews>>
    /\ UNCHANGED rateVars
    /\ UNCHANGED otherVars

\* Mutant: the pool does not count its busy threads.
RunningUncounted(p) == {}

\* The work items a thread of the pool is running
Running(p) == {u \in URLs : futs[p][u].st = "running"}

\* The work queue of the pool is FIFO: the next work item is the first queued one.
NextQueued(p, u) ==
    \E i \in DOMAIN urls[p] :
        /\ urls[p][i] = u
        /\ futs[p][u].st = "queued"
        /\ \A j \in 1..(i - 1) : futs[p][urls[p][j]].st # "queued"

\* A pool thread takes the next work item (at most `workers` threads exist).
WorkerStart(p, u) ==
    /\ pc[p] \in {"pool", "mark"}
    /\ NextQueued(p, u)
    /\ Cardinality(Running(p)) < args[p].workers
    /\ futs' = [futs EXCEPT ![p][u].st = "running"]
    /\ UNCHANGED <<queue, books, pc, args, urls, cur, processed, starts, served, hist, reviews>>
    /\ UNCHANGED rateVars
    /\ UNCHANGED otherVars

\* worker(u) ends: polite_sleep, then parse_book_page on what the site serves.
WorkerFinish(p, u) ==
    /\ pc[p] \in {"pool", "mark"}
    /\ futs[p][u].st = "running"
    /\ \E page \in PagesOf(u) :
          /\ futs' = [futs EXCEPT ![p][u] = [st |-> "finished", page |-> page]]
          /\ served' = [served EXCEPT ![u] = page]
    /\ UNCHANGED <<queue, books, pc, args, urls, cur, processed, starts, hist, reviews>>
    /\ UNCHANGED rateVars
    /\ UNCHANGED otherVars

\* as_completed yields a finished future; its books row is written and committed, and
\* after an ok row the reviews of the result (if args.with_reviews and res.reviews).
Collect(p, u) ==
    /\ pc[p] = "pool"
    /\ futs[p][u].st = "finished"
    /\ books' = upsert_book(books, u, RowOf(Out(futs[p][u])))
    /\ \E r \in ReviewsFound(u, Out(futs[p][u])) :
          reviews' = IF r THEN upsert_reviews(reviews, u) ELSE reviews
    /\ cur' = [cur EXCEPT ![p] = u]
    /\ pc' = [pc EXCEPT ![p] = "mark"]
    /\ UNCHANGED <<queue, args, urls, futs, processed, starts, served, hist>>
    /\ UNCHANGED rateVars
    /\ UNCHANGED otherVars

\* The queue row of the same url is marked and committed; processed += 1.  After the
\* last future the with-block ends and the loop starts over.
Mark(p) ==
    /\ pc[p] = "mark"
    /\ queue' = MarkOf(queue, cur[p], Out(futs[p][cur[p]]))
    /\ futs' = [futs EXCEPT ![p][cur[p]].st = "consumed"]
    /\ processed' = [processed EXCEPT ![p] = @ + 1]
    /\ hist' = [hist EXCEPT
                  ![p].twice = IF cur[p] \in hist[p].resolved THEN @ \cup {cur[p]} ELSE @,
                  ![p].resolved = @ \cup {cur[p]}]
    /\ pc' = [pc EXCEPT ![p] =
                IF \A u \in Range(urls[p]) \ {cur[p]} : futs[p][u].st = "consumed"
                THEN "loop" ELSE "pool"]
    /\ cur' = [cur EXCEPT ![p] = 0]
    /\ UNCHANGED <<books, args, urls, starts, served, reviews>>
    /\ UNCHANGED rateVars
    /\ UNCHANGED otherVars

\* The process is killed (SIGKILL, power loss): everything it held in memory is gone.
Kill(p) ==
    /\ pc[p] \notin Stopped
    /\ pc' = [pc EXCEPT ![p] = "killed"]
    /\ urls' = [urls EXCEPT ![p] = <<>>]
    /\ futs' = [futs EXCEPT ![p] = NoFutures]
    /\ cur' = [cur EXCEPT ![p] = 0]
    /\ args' = [args EXCEPT ![p] = NoArgs]
    /\ processed' = [processed EXCEPT ![p] = 0]
    /\ hist' = [hist EXCEPT ![p] = NoHist]
    /\ UNCHANGED <<queue, books, starts, served, reviews>>
    /\ UNCHANGED rateVars
    /\ UNCHANGED otherVars

----------------------------------------------------------------------------
(* http.py, polite_sleep.  Time is counted in half seconds; the clock moves *)
(* between any two steps of any thread (a thread can be preempted, wait for *)
(* the lock or for the interpreter lock for any time).  A local that is not *)
(* read again is cleared.                                                   *)

\* FetchConfig.min_delay_s = 0.5 and FetchConfig.max_delay_s = 1.5, in half seconds
min_delay_s == 1
max_delay_s == 3

Threads == 1..NumThreads
NoThread == 0
NoLocals == [delay |-> 0, now |-> 0, wake_at |-> 0, until |-> 0]

\* A thread calls polite_sleep (each thread of the model calls it once):
\* delay = random.uniform(min, max); now = time.monotonic()
SleepEnter(t) ==
    /\ tpc[t] = "idle"
    /\ \E d \in min_delay_s..max_delay_s :
          tlocal' = [tlocal EXCEPT ![t] = [@ EXCEPT !.delay = d, !.now = clock]]
    /\ tpc' = [tpc EXCEPT ![t] = "lock"]
    /\ UNCHANGED <<clock, next_allowed_ts, rate_lock, calls>>
    /\ UNCHANGED crawlVars
    /\ UNCHANGED <<reviews, otherVars>>

\* with _rate_lock: (acquire)
SleepLock(t) ==
    /\ tpc[t] = "lock"
    /\ rate_lock = NoThread
    /\ rate_lock' = t
    /\ tpc' = [tpc EXCEPT ![t] = "locked"]
    /\ UNCHANGED <<clock, next_allowed_ts, tlocal, calls>>
    /\ UNCHANGED crawlVars
    /\ UNCHANGED <<reviews, otherVars>>

\* Mutant: the slot of a call is its own clock reading.
WakeAtNow(now, next) == now

\* wake_at = max(now, _next_allowed_ts)
WakeAt(now, next) == Max(now, next)

\* wake_at = max(now, _next_allowed_ts); _next_allowed_ts = wake_at + delay; (release)
SleepAdvance(t) ==
    /\ tpc[t] = "locked"
    /\ rate_lock = t
    /\ LET w == WakeAt(tlocal[t].now, next_allowed_ts)
       IN /\ tlocal' = [tlocal EXCEPT ![t].wake_at = w, ![t].delay = 0]
          /\ next_allowed_ts' = w + tlocal[t].delay
    /\ rate_lock' = NoThread
    /\ tpc' = [tpc EXCEPT ![t] = "unlocked"]
    /\ UNCHANGED <<clock, calls>>
    /\ UNCHANGED crawlVars
    /\ UNCHANGED <<reviews, otherVars>>

\* sleep_s = max(0.0, wake_at - now); if sleep_s: time.sleep(sleep_s)
\* The sleep starts when the thread gets here and lasts sleep_s from then.
SleepStart(t) ==
    /\ tpc[t] = "unlocked"
    /\ LET sleep_s == Max(0, tlocal[t].wake_at - tlocal[t].now)
       IN tlocal' = [tlocal EXCEPT ![t].until = clock + sleep_s, ![t].now = 0]
    /\ tpc' = [tpc EXCEPT ![t] = "sleeping"]
    /\ UNCHANGED <<clock, next_allowed_ts, rate_lock, calls>>
    /\ UNCHANGED crawlVars
    /\ UNCHANGED <<reviews, otherVars>>

\* polite_sleep returns: the caller goes on to its request.
SleepReturn(t) ==
    /\ tpc[t] = "sleeping"
    /\ clock >= tlocal[t].until
    /\ calls' = calls \cup {[thread |-> t, slot |-> tlocal[t].wake_at, returned_at |-> clock]}
    /\ tpc' = [tpc EXCEPT ![t] = "returned"]
    /\ tlocal' = [tlocal EXCEPT ![t] = NoLocals]
    /\ UNCHANGED <<clock, next_allowed_ts, rate_lock>>
    /\ UNCHANGED crawlVars
    /\ UNCHANGED <<reviews, otherVars>>

Tick ==
    /\ clock < MaxClock
    /\ clock' = clock + 1
    /\ UNCHANGED <<next_allowed_ts, rate_lock, tpc, tlocal, calls>>
    /\ UNCHANGED crawlVars
    /\ UNCHANGED <<reviews, otherVars>>

RateNext ==
    \/ Tick
    \/ \E t \in Threads : SleepEnter(t)
    \/ \E t \in Threads : SleepLock(t)
    \/ \E t \in Threads : SleepAdvance(t)
    \/ \E t \in Threads : SleepStart(t)
    \/ \E t \in Threads : SleepReturn(t)

----------------------------------------------------------------------------
(* http.py, fetch_text / fetch_bytes, and the chain of calls that reaches    *)
(* them: cmd_crawl.worker -> polite_sleep, parse_book_page -> fetch_text of   *)
(* the page and, with reviews, of the reviews sub-page; discovery fetches     *)
(* robots.txt (fetch_text, 200 and 404 accepted) and sitemaps (fetch_bytes).  *)
(* Every polite_sleep call and every session.get is an event of the log.      *)

Calls == {"page", "reviews", "robots", "sitemap"}
RetryCounts == 0..MaxRetries

\* What session.get can give: a response with a status code, or an exception.
Resp(s) == [raised |-> FALSE, status |-> s]
Timeout == [raised |-> TRUE, status |-> 0]
NoResp == [raised |-> FALSE, status |-> 0]
Responses == {Timeout} \cup {Resp(s) : s \in {200, 404, 500}}

\* The exception an attempt ends with: the one session.get raised, or
\* RuntimeError("HTTP <status> for <url>").
NoErr == [kind |-> "none", status |-> 0]
ErrOfAttempt(r) ==
    IF r.raised THEN [kind |-> "request", status |-> 0]
    ELSE [kind |-> "http", status |-> r.status]

\* How a call ends: `return resp.text` / `return resp.content`, or
\* `raise RuntimeError("Failed to fetch ...") from last_err`.
NoOut == [kind |-> "none", status |-> 0, cause |-> NoErr]
Body(r) == [kind |-> "body", status |-> r.status, cause |-> NoErr]
Failed(e) == [kind |-> "error", status |-> 0, cause |-> e]

SleepEv(c) == [ev |-> "sleep", call |-> c, resp |-> NoResp]
GetEv(c, r) == [ev |-> "get", call |-> c, resp |-> r]

\* ok_statuses of each call site
OkStatuses(c) == IF c = "robots" THEN {200, 404} ELSE {200}

NoFetch ==
    [pc |-> "idle", call |-> "none", max_retries |-> 0, with_reviews |-> FALSE,
     attempt |-> 0, last_err |-> NoErr, log |-> <<>>, outs |-> [c \in Calls |-> NoOut]]

\* Mutant: the limiter is called before every attempt, the first included.
PaceEveryAttempt(attempt) == TRUE

\* `if attempt: polite_sleep(cfg)`
SleepBeforeAttempt(attempt) == attempt # 0

\* worker(u): polite_sleep(cfg), then parse_book_page calls fetch_text on the page.
WorkerCall ==
    /\ fetch.pc = "idle"
    /\ \E m \in RetryCounts, r \in BOOLEAN :
          fetch' = [NoFetch EXCEPT !.pc = "loop", !.call = "page", !.max_retries = m,
                                   !.with_reviews = r, !.log = <<SleepEv("worker")>>]
    /\ UNCHANGED <<crawlVars, rateVars, reviews, conn, extraVars>>

\* Discovery calls fetch_text on robots.txt or fetch_bytes on a sitemap.
DiscoveryCall ==
    /\ fetch.pc = "idle"
    /\ \E m \in RetryCounts, c \in {"robots", "sitemap"} :
          fetch' = [NoFetch EXCEPT !.pc = "loop", !.call = c, !.max_retries = m]
    /\ UNCHANGED <<crawlVars, rateVars, reviews, conn, extraVars>>

\* One iteration of `for attempt in range(cfg.max_retries)`.
FetchAttempt ==
    /\ fetch.pc = "loop"
    /\ fetch.attempt < fetch.max_retries
    /\ \E r \in Responses :
          LET paced == IF SleepBeforeAttempt(fetch.attempt)
                       THEN Append(fetch.log, SleepEv(fetch.call)) ELSE fetch.log
              log2 == Append(paced, GetEv(fetch.call, r))
          IN IF ~r.raised /\ r.status \in OkStatuses(fetch.call)
             THEN fetch' = [fetch EXCEPT !.log = log2, !.outs[fetch.call] = Body(r),
                                         !.pc = "fetched", !.attempt = 0, !.last_err = NoErr]
             ELSE fetch' = [fetch EXCEPT !.log = log2, !.attempt = @ + 1,
                                         !.last_err = ErrOfAttempt(r)]
    /\ UNCHANGED <<crawlVars, rateVars, reviews, conn, extraVars>>

\* The loop is over: raise RuntimeError("Failed to fetch ...") from last_err.
FetchRaise ==
    /\ fetch.pc = "loop"
    /\ fetch.attempt >= fetch.max_retries
    /\ fetch' = [fetch EXCEPT !.outs[fetch.call] = Failed(fetch.last_err),
                              !.pc = "fetched", !.attempt = 0, !.last_err = NoErr]
    /\ UNCHANGED <<crawlVars, rateVars, reviews, conn, extraVars>>

\* The caller goes on without another request: the fetch failed, the page is not a
\* book, reviews are not asked for or were found in the page, or the call was a
\* discovery call or the reviews call.
CallerDone ==
    /\ fetch.pc = "fetched"
    /\ fetch' = [fetch EXCEPT !.pc = "done"]
    /\ UNCHANGED <<crawlVars, rateVars, reviews, conn, extraVars>>

\* parse_book_page found no review in the book page and a reviews url in it:
\* fetch_text(session, rev_url, cfg=cfg).
ReviewsCall ==
    /\ fetch.pc = "fetched"
    /\ fetch.call = "page"
    /\ fetch.outs["page"].kind = "body"
    /\ fetch.with_reviews
    /\ fetch' = [fetch EXCEPT !.pc = "loop", !.call = "reviews"]
    /\ UNCHANGED <<crawlVars, rateVars, reviews, conn, extraVars>>

FetchNext ==
    \/ WorkerCall
    \/ DiscoveryCall
    \/ FetchAttempt
    \/ FetchRaise
    \/ CallerDone
    \/ ReviewsCall

----------------------------------------------------------------------------
(* The other commands: add, discover (and crawl --discover), single --save,   *)
(* reset.  Each opens its own connection; conn.cmd names the command, and      *)
(* conn.urls the urls it was last given (reset: the urls it found).  Commands  *)
(* run one after the other: none starts while a crawl or another command runs, *)
(* and at most MaxCmds commands are run.                                       *)

SharedUrls == 1..NumSharedUrls

NoConn ==
    [open |-> FALSE, cmd |-> "none", total_changes |-> 0, ret |-> 0, inserted |-> 0,
     urls |-> {}, called |-> FALSE]

\* Mutant: INSERT OR REPLACE, a row that exists is replaced by a fresh one.
enqueue_urls_replace(q, S, now) ==
    [u \in DOMAIN q \cup S |->
        IF u \in S
        THEN [status |-> "pending", attempts |-> 0, last_error |-> NULL, discovered_at |-> now]
        ELSE q[u]]

\* INSERT OR IGNORE INTO queue(url, discovered_at) VALUES(?, ?)  (executemany)
enqueue_urls(q, S, now) ==
    [u \in DOMAIN q \cup S |->
        IF u \in DOMAIN q
        THEN q[u]
        ELSE [status |-> "pending", attempts |-> 0, last_error |-> NULL, discovered_at |-> now]]

\* utc_now_iso() of a new call: each call of this model falls in a later second
\* than the rows already in the queue.
Now(q) ==
    IF DOMAIN q = {} THEN 1
    ELSE 1 + CHOOSE d \in {q[u].discovered_at : u \in DOMAIN q} :
                 \A u \in DOMAIN q : q[u].discovered_at <= d

\* Mutant: the reset keeps the attempts counters.
reset_keeps_attempts(q) ==
    [u \in DOMAIN q |-> [q[u] EXCEPT !.status = "pending", !.last_error = NULL]]

\* Mutant: the reset empties the queue as well.
reset_deletes_queue(q) == [u \in {} |-> q[u]]

\* UPDATE queue SET status='pending', attempts=0, last_error=NULL
reset_queue(q) ==
    [u \in DOMAIN q |->
        [q[u] EXCEPT !.status = "pending", !.attempts = 0, !.last_error = NULL]]

Quiet == pc[1] \in Stopped /\ ~conn.open /\ starts < MaxCmds

\* A command starts after the crawl process has exited: nothing of it is left.
Exited ==
    /\ pc' = [pc EXCEPT ![1] = "idle"]
    /\ args' = [args EXCEPT ![1] = NoArgs]
    /\ urls' = [urls EXCEPT ![1] = <<>>]
    /\ futs' = [futs EXCEPT ![1] = NoFutures]
    /\ cur' = [cur EXCEPT ![1] = 0]
    /\ processed' = [processed EXCEPT ![1] = 0]
    /\ hist' = [hist EXCEPT ![1] = NoHist]
    /\ served' = [u \in URLs |-> "none"]

\* cmd_add / cmd_discover: connect_db, init_db.
Connect ==
    /\ Quiet
    /\ \E c \in {"add", "discover"} : conn' = [NoConn EXCEPT !.open = TRUE, !.cmd = c]
    /\ Exited
    /\ starts' = starts + 1
    /\ UNCHANGED <<queue, books, rateVars, reviews, fetch, extraVars>>

\* cmd_crawl --discover: connect_db, init_db, the recovery update (its rows count
\* as changes of the connection), then discovery on the same connection.
ConnectCrawl ==
    /\ Quiet
    /\ queue' = RecoverInterrupted(queue)
    /\ conn' = [NoConn EXCEPT !.open = TRUE, !.cmd = "crawl",
                  !.total_changes = Cardinality({u \in DOMAIN queue :
                                                    queue[u].status = "in_progress"})]
    /\ Exited
    /\ starts' = starts + 1
    /\ UNCHANGED books
    /\ UNCHANGED <<rateVars, reviews, fetch, extraVars>>

\* enqueue_urls(con, S): cmd_add calls it once, _enqueue_streaming once per chunk.
\* conn.inserted is the number of rows the call added to the queue.
Enqueue ==
    /\ conn.open
    /\ conn.cmd \in {"add", "discover", "crawl"}
    /\ conn.cmd = "add" => ~conn.called
    /\ \E S \in SUBSET SharedUrls :
          LET q2 == enqueue_urls(queue, S, Now(queue))
              changes == conn.total_changes + Cardinality(S \ DOMAIN queue)
          IN /\ queue' = q2
             /\ conn' = [conn EXCEPT !.total_changes = changes,
                                     !.ret = changes,
                                     !.inserted = Cardinality(DOMAIN q2) -
                                                  Cardinality(DOMAIN queue),
                                     !.urls = S,
                                     !.called = TRUE]
    /\ UNCHANGED <<books, pc, args, urls, futs, cur, processed, starts, served, hist>>
    /\ UNCHANGED <<rateVars, reviews, fetch, extraVars>>

\* cmd_single url --save [--with-reviews], when the parse is ok: upsert_book,
\* upsert_reviews, mark_queue_done.  (A parse that is not ok exits before the
\* store is opened.)
Single ==
    /\ Quiet
    /\ \E u \in SharedUrls, page \in Pages :
          /\ page \in PagesOf(u)
          /\ Succeeded(Worker(page))
          /\ books' = upsert_book(books, u, OkRow(Worker(page).res))
          /\ \E r \in ReviewsFound(u, Worker(page)) :
                reviews' = IF r THEN upsert_reviews(reviews, u) ELSE reviews
          /\ queue' = mark_queue_done(queue, u)
          /\ conn' = [NoConn EXCEPT !.open = TRUE, !.cmd = "single", !.urls = {u}]
    /\ Exited
    /\ starts' = starts + 1
    /\ UNCHANGED <<rateVars, fetch, extraVars>>

\* cmd_reset: DELETE FROM reviews; DELETE FROM books; the queue update; commit.
Reset ==
    /\ Quiet
    /\ reviews' = {}
    /\ books' = <<>>
    /\ queue' = reset_queue(queue)
    /\ conn' = [NoConn EXCEPT !.open = TRUE, !.cmd = "reset", !.urls = DOMAIN queue,
                  !.total_changes = Cardinality(reviews) + Cardinality(DOMAIN books) +
                                    Cardinality(DOMAIN queue)]
    /\ Exited
    /\ starts' = starts + 1
    /\ UNCHANGED <<rateVars, fetch, extraVars>>

\* The command ends.
Disconnect ==
    /\ conn.open
    /\ conn' = NoConn
    /\ UNCHANGED <<crawlVars, rateVars, reviews, fetch, extraVars>>

\* The crawl commands of this specification are `crawl --workers 1 --limit 1` (the
\* other specifications vary the options); a crawl can be killed at any step.
CmdNext ==
    \/ ~conn.open /\ Start(1) /\ args'[1] = [workers |-> 1, limit |-> Limit(1)]
    \/ Recover(1)
    \/ CrawlSelect(1)
    \/ CrawlClaim(1)
    \/ \E u \in URLs : WorkerStart(1, u)
    \/ \E u \in URLs : WorkerFinish(1, u)
    \/ \E u \in URLs : Collect(1, u)
    \/ Mark(1)
    \/ Kill(1)
    \/ Connect
    \/ ConnectCrawl
    \/ Enqueue
    \/ Single
    \/ Reset
    \/ Disconnect

----------------------------------------------------------------------------
(* cli.py, cmd_status *)

QueueStatuses == {"pending", "in_progress", "done", "failed"}
BookStatuses == {"ok", "error"}

\* SELECT status, COUNT(*) FROM queue / books GROUP BY status (a status without rows
\* is not listed: its count is 0).
cmd_status(q, b) ==
    [queue |-> [st \in QueueStatuses |-> Cardinality({u \in DOMAIN q : q[u].status = st})],
     books |-> [st \in BookStatuses |-> Cardinality({u \in DOMAIN b : b[u].status = st})]]

----------------------------------------------------------------------------
(* storage.py, the reviews table.  A string is a sequence of characters; a  *)
(* review text is given by its first 200 characters (head) and by what      *)
(* follows them (tail).  Reviews reach upsert_reviews from the page parser, *)
(* which sets no review_id, so the id is always the computed one.           *)

Strs == {<<"a">>, <<"a", "|", "a">>}
Texts == {[head |-> <<>>, tail |-> ""], [head |-> <<"a">>, tail |-> ""],
          [head |-> <<"a">>, tail |-> "more"]}
BookUrls == {<<"u">>, <<"v">>}

\* The review dicts of a parse result
ReviewDicts == [book_url : BookUrls, author : Strs, published_at : Strs, text : Texts]

\* Mutant: the whole text goes into the id.
make_review_id_whole_text(book_url, author, published_at, text) ==
    book_url \o <<"|">> \o author \o <<"|">> \o published_at \o <<"|">> \o text.head
             \o <<text.tail>>

\* f"{book_url}|{author}|{published_at}|{text[:200]}"; the sha1 prefix of this string is
\* taken to be as good as the string itself (no two strings share it).
make_review_id(book_url, author, published_at, text) ==
    book_url \o <<"|">> \o author \o <<"|">> \o published_at \o <<"|">> \o text.head

ReviewId(r) == make_review_id(r.book_url, r.author, r.published_at, r.text)

\* INSERT ... ON CONFLICT(review_id) DO UPDATE SET every other column
UpsertRow(t, r) ==
    [x \in DOMAIN t \cup {ReviewId(r)} |-> IF x = ReviewId(r) THEN r ELSE t[x]]

\* executemany: the rows are upserted in list order
RECURSIVE UpsertRows(_, _)
UpsertRows(t, rows) ==
    IF rows = <<>> THEN t ELSE UpsertRows(UpsertRow(t, Head(rows)), Tail(rows))

ReviewLists ==
    {<<>>} \cup {<<r>> : r \in ReviewDicts} \cup {<<r, s>> : r, s \in ReviewDicts}

\* written: every review dict handed to upsert_reviews so far; ret: the last return value
NoRevs == [rows |-> <<>>, written |-> {}, ret |-> 0]

\* upsert_reviews(con, reviews): an empty list returns 0 at once
UpsertReviews ==
    /\ \E rs \in ReviewLists :
          /\ Cardinality(revs.written \cup Range(rs)) <= MaxReviews
          /\ revs' = [rows |-> IF rs = <<>> THEN revs.rows ELSE UpsertRows(revs.rows, rs),
                      written |-> revs.written \cup Range(rs),
                      ret |-> Len(rs)]
    /\ UNCHANGED <<crawlVars, rateVars, reviews, conn, fetch, disc, cat, enq, parse, norm>>

----------------------------------------------------------------------------
(* sitemaps.py, catalog.py and cli._stream_book_urls.  A location is a url  *)
(* of the site given by its directory, its name and its suffix.  What the   *)
(* site serves for a url is chosen when the url is fetched.                 *)

Sm1 == [dir |-> "/", name |-> "sitemap1", ext |-> ".xml"]
Sm2 == [dir |-> "/", name |-> "sitemap2", ext |-> ".xml"]
SmGz == [dir |-> "/", name |-> "sitemap3.xml", ext |-> ".gz"]
Book1 == [dir |-> "/book/", name |-> "1", ext |-> "/"]
Book2 == [dir |-> "/book/", name |-> "2", ext |-> "/"]

\* The sitemap documents of the site, in the order of their urls
AllSitemaps == <<Sm1, Sm2, SmGz>>
SitemapLocs == Range(AllSitemaps)
Locs == SitemapLocs \cup {Book1}

\* The <loc> texts of one sitemap document
Docs == {<<>>} \cup {<<a>> : a \in Locs} \cup {<<a, b>> : a, b \in Locs}

\* The bytes fetch_bytes returns: gzip-compressed or not, well-formed XML or not
Payloads ==
    {[gz |-> g, xml_ok |-> TRUE, locs |-> d] : g \in BOOLEAN, d \in Docs}
    \cup {[gz |-> g, xml_ok |-> FALSE, locs |-> <<>>] : g \in BOOLEAN}

\* sorted(set(sitemaps)) of the Sitemap: lines of robots.txt
SortedList(S) == SelectSeq(AllSitemaps, LAMBDA x : x \in S)

\* is_probable_book_url: every url of the model is on the litres host
is_probable_book_url(u) == u.dir \in {"/book/", "/audiobook/"}

\* _maybe_decompress_gzip: gzip.decompress is applied when the url ends in .gz or the
\* data starts with the gzip magic bytes
Decompresses(sm, data) == sm.ext = ".gz" \/ data.gz

\* gzip.decompress raises on data that is not gzip
DecompressRaises(sm, data) == Decompresses(sm, data) /\ ~data.gz

\* Mutant: a loc ending in .xml is queued whether it was seen or not.
RECURSIVE WalkLocsNoSeen(_, _)
WalkLocsNoSeen(w, locs) ==
    IF locs = <<>> THEN w
    ELSE IF Head(locs).ext = ".xml"
    THEN WalkLocsNoSeen([w EXCEPT !.queue = Append(@, Head(locs))], Tail(locs))
    ELSE WalkLocsNoSeen([w EXCEPT !.out = Append(@, Head(locs))], Tail(locs))

\* The loop over the <loc> texts of one document: a loc ending in .xml and not seen yet
\* is queued, every other loc is yielded.  w = [seen, queue, out].
RECURSIVE WalkLocs(_, _)
WalkLocs(w, locs) ==
    IF locs = <<>> THEN w
    ELSE LET loc == Head(locs)
         IN IF loc.ext = ".xml" /\ loc \notin w.seen
            THEN WalkLocs([seen |-> w.seen \cup {loc},
                           queue |-> Append(w.queue, loc),
                           out |-> w.out], Tail(locs))
            ELSE WalkLocs([w EXCEPT !.out = Append(@, loc)], Tail(locs))

\* Mutant: the sitemap walk is used whatever robots.txt lists.
AfterRobotsNoFallback(sitemaps) == "walk"

\* `if sitemaps:` the sitemap walk, else the fall through to the catalog walk
AfterRobots(sitemaps) == IF sitemaps # <<>> THEN "walk" ELSE "catalog"

Methods == {"catalog", "sitemap"}
PageCounts == 0..MaxPages

\* pc: position of _stream_book_urls; roots: the result of discover_sitemaps; seen,
\* queue: the locals of iter_urls_from_sitemaps; fetched: the sitemap urls it fetched;
\* walked: what it yielded; out: what _stream_book_urls yielded
NoDisc == [pc |-> "idle", method |-> "none", max_pages |-> 0, roots |-> <<>>,
           seen |-> {}, queue |-> <<>>, fetched |-> <<>>, walked |-> <<>>, out |-> <<>>]

\* cmd_discover or crawl --discover calls _stream_book_urls(method, max_pages_per_genre)
StreamStart ==
    /\ disc.pc = "idle"
    /\ \E m \in Methods, n \in PageCounts :
          disc' = [disc EXCEPT !.pc = IF m = "sitemap" THEN "robots" ELSE "catalog",
                               !.method = m, !.max_pages = n]
    /\ UNCHANGED <<crawlVars, rateVars, reviews, conn, fetch, revs, cat, enq, parse, norm>>

\* discover_sitemaps: robots.txt is fetched (200 and 404 are accepted) and its Sitemap:
\* lines collected; the for loop of iter_urls_from_sitemaps then fills seen and queue.
\* With no entry the catalog walk is used.
Robots ==
    /\ disc.pc = "robots"
    /\ \/ disc' = [disc EXCEPT !.pc = "raised"]
       \/ \E S \in SUBSET SitemapLocs :
             disc' = IF AfterRobots(SortedList(S)) = "walk"
                     THEN [disc EXCEPT !.pc = "walk", !.roots = SortedList(S),
                                       !.seen = S, !.queue = SortedList(S)]
                     ELSE [disc EXCEPT !.pc = "catalog"]
    /\ UNCHANGED <<crawlVars, rateVars, reviews, conn, fetch, revs, cat, enq, parse, norm>>

\* One round of `while queue`: the first sitemap is popped and fetched.  A failed
\* fetch or decompression skips it; ET.fromstring is outside the try block, so a
\* document that is not well-formed ends the walk with ParseError.
SitemapStep ==
    /\ disc.pc = "walk"
    /\ disc.queue # <<>>
    /\ LET sm == Head(disc.queue)
           popped == [disc EXCEPT !.queue = Tail(@), !.fetched = Append(@, sm)]
       IN \/ disc' = popped
          \/ \E data \in Payloads :
                IF DecompressRaises(sm, data)
                THEN disc' = popped
                ELSE IF ~data.xml_ok
                THEN disc' = [popped EXCEPT !.pc = "raised"]
                ELSE LET w == WalkLocs([seen |-> popped.seen, queue |-> popped.queue,
                                        out |-> <<>>], data.locs)
                     IN disc' = [popped EXCEPT
                                   !.seen = w.seen, !.queue = w.queue,
                                   !.walked = @ \o w.out,
                                   !.out = @ \o SelectSeq(w.out, is_probable_book_url)]
    /\ UNCHANGED <<crawlVars, rateVars, reviews, conn, fetch, revs, cat, enq, parse, norm>>

\* The queue is empty: the walk ends and _stream_book_urls returns.
SitemapEnd ==
    /\ disc.pc = "walk"
    /\ disc.queue = <<>>
    /\ disc' = [disc EXCEPT !.pc = "done"]
    /\ UNCHANGED <<crawlVars, rateVars, reviews, conn, fetch, revs, cat, enq, parse, norm>>

(* catalog.py *)

Genres == <<"/genre/a/", "/genre/b/">>
GenreLists == {SubSeq(Genres, 1, n) : n \in 0..Len(Genres)}
BookLinks == {Book1, Book2}

\* The /book/ and /audiobook/ hrefs of one listing page, in page order
LinkLists == {<<>>} \cup {<<a>> : a \in BookLinks} \cup {<<a, b>> : a, b \in BookLinks}

\* range(1, max_pages + 1)
PageRange(max_pages) == [i \in 1..max_pages |-> i]

\* Mutant: every link of the page is yielded, seen or not.
FoundAll(seen, links) == links

\* found: the links of the page not in seen_in_genre, each once, in page order
RECURSIVE Found(_, _)
Found(seen, links) ==
    IF links = <<>> THEN <<>>
    ELSE IF Head(links) \in seen THEN Found(seen, Tail(links))
    ELSE <<Head(links)>> \o Found(seen \cup {Head(links)}, Tail(links))

\* genres: the genre urls still to walk, the first one being walked; todo: the page
\* numbers left in the range of the current genre; pages: the pages fetched for it and
\* what each gave; seen_in_genre and yielded: for the current genre; ended: why its
\* loop ended; total: what the catalog walk yielded over all genres
NoCat == [genres |-> <<>>, todo |-> <<>>, pages |-> <<>>, seen_in_genre |-> {},
          yielded |-> <<>>, ended |-> "no", total |-> <<>>]

StartGenre(c, max_pages) ==
    [c EXCEPT !.todo = PageRange(max_pages), !.pages = <<>>, !.seen_in_genre = {},
              !.yielded = <<>>, !.ended = "no"]

\* iter_genre_urls: the genres page is fetched (a failure is raised to the caller) and
\* the walk of the first genre starts.
GenresFetch ==
    /\ disc.pc = "catalog"
    /\ \/ /\ disc' = [disc EXCEPT !.pc = "raised"]
          /\ cat' = cat
       \/ \E gs \in GenreLists :
             /\ cat' = IF gs = <<>> THEN NoCat
                       ELSE StartGenre([NoCat EXCEPT !.genres = gs], disc.max_pages)
             /\ disc' = [disc EXCEPT !.pc = IF gs = <<>> THEN "done" ELSE "genre"]
    /\ UNCHANGED <<crawlVars, rateVars, reviews, conn, fetch, revs, enq, parse, norm>>

\* One round of the page loop of iter_book_urls_from_genre: the next page of the range
\* is fetched; a failed fetch or a page with nothing new ends the genre.
GenrePage ==
    /\ disc.pc = "genre"
    /\ cat.ended = "no"
    /\ cat.todo # <<>>
    /\ LET fetched(got) ==
               [cat EXCEPT !.todo = Tail(@),
                           !.pages = Append(@, [page |-> Head(cat.todo), got |-> got])]
       IN \/ /\ cat' = [fetched("fetch failed") EXCEPT !.ended = "fetch failed"]
             /\ disc' = disc
          \/ \E links \in LinkLists :
                LET found == Found(cat.seen_in_genre, links)
                IN IF found = <<>>
                   THEN /\ cat' = [fetched("nothing new") EXCEPT !.ended = "nothing new"]
                        /\ disc' = disc
                   ELSE /\ cat' = [fetched("new") EXCEPT
                                     !.seen_in_genre = @ \cup Range(found),
                                     !.yielded = @ \o found,
                                     !.total = @ \o found]
                        /\ disc' = [disc EXCEPT !.out = @ \o found]
    /\ UNCHANGED <<crawlVars, rateVars, reviews, conn, fetch, revs, enq, parse, norm>>

\* The page loop of the genre is over (break, or the range is exhausted): the next
\* genre starts, or the catalog walk ends.
GenreEnd ==
    /\ disc.pc = "genre"
    /\ cat.ended # "no" \/ cat.todo = <<>>
    /\ IF Len(cat.genres) > 1
       THEN /\ cat' = StartGenre([cat EXCEPT !.genres = Tail(@)], disc.max_pages)
            /\ disc' = disc
       ELSE /\ cat' = [cat EXCEPT !.ended = IF @ = "no" THEN "range" ELSE @]
            /\ disc' = [disc EXCEPT !.pc = "done"]
    /\ UNCHANGED <<crawlVars, rateVars, reviews, conn, fetch, revs, enq, parse, norm>>

DiscNext ==
    \/ StreamStart
    \/ Robots
    \/ SitemapStep
    \/ SitemapEnd
    \/ GenresFetch
    \/ GenrePage
    \/ GenreEnd

----------------------------------------------------------------------------
(* cli._enqueue_streaming: the urls of a discovery sequence are buffered    *)
(* and written to the queue in batches.                                     *)

BatchSizes == 1..MaxBatch
DiscLimits == {NoLimit} \cup {Limit(k) : k \in 0..MaxStream}

\* The discovery sequences: any urls, repeated or not
RECURSIVE Streams(_)
Streams(n) ==
    IF n = 0 THEN {<<>>}
    ELSE Streams(n - 1) \cup {Append(s, u) : s \in Streams(n - 1), u \in SharedUrls}

\* Mutant: the buffer is written untrimmed when the limit is reached.
Untrimmed(buf, limit, total) == buf

\* buf[: max(0, limit - total)]
Trimmed(buf, limit, total) == SubSeq(buf, 1, Min(Len(buf), Max(0, limit - total)))

\* src: what the discovery sequence still yields; all: what it yields in all;
\* passed: the urls handed to enqueue_urls, call after call; ret: the return value
NoEnq == [pc |-> "idle", limit |-> NoLimit, batch_size |-> 0, src |-> <<>>,
          all |-> <<>>, buf |-> <<>>, total |-> 0, passed |-> <<>>, ret |-> 0]

\* _enqueue_streaming(con, urls, limit, batch_size): buf = [], total = 0
EnqStart ==
    /\ enq.pc = "idle"
    /\ \E l \in DiscLimits, b \in BatchSizes, s \in Streams(MaxStream) :
          enq' = [NoEnq EXCEPT !.pc = "for", !.limit = l, !.batch_size = b,
                               !.src = s, !.all = s]
    /\ UNCHANGED <<crawlVars, rateVars, reviews, conn, fetch, revs, disc, cat, parse, norm>>

\* for u in urls: buf.append(u)
EnqAppend ==
    /\ enq.pc = "for"
    /\ enq.src # <<>>
    /\ enq' = [enq EXCEPT !.pc = "check", !.src = Tail(@), !.buf = Append(@, Head(enq.src))]
    /\ UNCHANGED <<crawlVars, rateVars, reviews, conn, fetch, revs, disc, cat, parse, norm>>

\* The rest of the loop body: at the limit the trimmed buffer is written and the total
\* returned; a full buffer is written and emptied.
EnqCheck ==
    /\ enq.pc = "check"
    /\ IF enq.limit.given /\ enq.total + Len(enq.buf) >= enq.limit.n
       THEN LET buf == Trimmed(enq.buf, enq.limit.n, enq.total)
            IN /\ queue' = IF buf # <<>> THEN enqueue_urls(queue, Range(buf), Now(queue))
                           ELSE queue
               /\ enq' = [enq EXCEPT !.pc = "returned", !.buf = buf,
                                     !.passed = @ \o buf,
                                     !.total = @ + Len(buf), !.ret = enq.total + Len(buf)]
       ELSE IF Len(enq.buf) >= enq.batch_size
       THEN /\ queue' = enqueue_urls(queue, Range(enq.buf), Now(queue))
            /\ enq' = [enq EXCEPT !.pc = "for", !.buf = <<>>, !.passed = @ \o enq.buf,
                                  !.total = @ + Len(enq.buf)]
       ELSE /\ queue' = queue
            /\ enq' = [enq EXCEPT !.pc = "for"]
    /\ UNCHANGED <<books, pc, args, urls, futs, cur, processed, starts, served, hist>>
    /\ UNCHANGED <<rateVars, reviews, conn, fetch, revs, disc, cat, parse, norm>>

\* The sequence is exhausted: what is left in the buffer is written, the total returned.
EnqReturn ==
    /\ enq.pc = "for"
    /\ enq.src = <<>>
    /\ queue' = IF enq.buf # <<>> THEN enqueue_urls(queue, Range(enq.buf), Now(queue))
                ELSE queue
    /\ enq' = [enq EXCEPT !.pc = "returned", !.passed = @ \o enq.buf,
                          !.total = @ + Len(enq.buf), !.ret = enq.total + Len(enq.buf)]
    /\ UNCHANGED <<books, pc, args, urls, futs, cur, processed, starts, served, hist>>
    /\ UNCHANGED <<rateVars, reviews, conn, fetch, revs, disc, cat, parse, norm>>

EnqNext == EnqStart \/ EnqAppend \/ EnqCheck \/ EnqReturn

----------------------------------------------------------------------------
(* Initial store: every url discovered and pending, nothing parsed.  Urls   *)
(* enqueued by one enqueue_urls call share their discovered_at.             *)

DiscoveredAt(u) == (u + 1) \div 2

RateInit ==
    /\ clock = 0
    /\ next_allowed_ts = 0
    /\ rate_lock = NoThread
    /\ tpc = [t \in Threads |-> "idle"]
    /\ tlocal = [t \in Threads |-> NoLocals]
    /\ calls = {}

\* The queue after the first n urls were enqueued.
Enqueued(n) ==
    [u \in 1..n |-> [status |-> "pending", attempts |-> 0,
                     last_error |-> NULL, discovered_at |-> DiscoveredAt(u)]]

CrawlInit(n) ==
    /\ queue = Enqueued(n)
    /\ books = <<>>
    /\ pc = [p \in Procs |-> "idle"]
    /\ args = [p \in Procs |-> NoArgs]
    /\ urls = [p \in Procs |-> <<>>]
    /\ futs = [p \in Procs |-> NoFutures]
    /\ cur = [p \in Procs |-> 0]
    /\ processed = [p \in Procs |-> 0]
    /\ starts = 0
    /\ served = [u \in URLs |-> "none"]
    /\ hist = [p \in Procs |-> NoHist]
    /\ reviews = {}

ExtraInit ==
    /\ revs = NoRevs
    /\ disc = NoDisc
    /\ cat = NoCat
    /\ enq = NoEnq
    /\ parse = NoParse
    /\ norm = NoNorm

OtherInit == conn = NoConn /\ fetch = NoFetch /\ ExtraInit

Init == CrawlInit(NumSharedUrls) /\ RateInit /\ OtherInit

OnceInit == CrawlInit(NumUrls) /\ RateInit /\ OtherInit

Step(p) ==
    \/ Start(p)
    \/ Recover(p)
    \/ CrawlSelect(p)
    \/ CrawlClaim(p)
    \/ \E u \in URLs : WorkerStart(p, u)
    \/ \E u \in URLs : WorkerFinish(p, u)
    \/ \E u \in URLs : Collect(p, u)
    \/ Mark(p)

\* Crawl commands run by two processes on one store.
Next == \E p \in Procs : Step(p)

Spec == Init /\ [][Next]_vars

\* One crawl command at a time: it may be killed at any point and run again.
SoloNext == Step(1) \/ Kill(1)

SoloSpec == Init /\ [][SoloNext]_vars

\* One crawl command, run once to its end.
OnceNext ==
    \/ starts = 0 /\ Start(1)
    \/ Recover(1)
    \/ CrawlSelect(1)
    \/ CrawlClaim(1)
    \/ \E u \in URLs : WorkerStart(1, u)
    \/ \E u \in URLs : WorkerFinish(1, u)
    \/ \E u \in URLs : Collect(1, u)
    \/ Mark(1)

OnceSpec == OnceInit /\ [][OnceNext]_vars

\* One crawl command run once, every thread of it being scheduled again and again and
\* every fetch returning.
TermSpec == OnceInit /\ [][OnceNext]_vars /\ WF_vars(OnceNext)

\* One discovery, every fetch of it returning and its consumer asking for every next url.
DiscFairSpec == Init /\ [][DiscNext]_vars /\ WF_vars(DiscNext)

\* Calls of upsert_reviews on an empty reviews table.
RevSpec == Init /\ [][UpsertReviews]_vars

\* One call of _stream_book_urls, consumed to its end.
DiscSpec == Init /\ [][DiscNext]_vars

\* One call of _enqueue_streaming on a store that holds some urls already.
EnqSpec == Init /\ [][EnqNext]_vars
ParseSpec == Init /\ [][ParseNext]_vars
NormSpec == Init /\ [][NormNext]_vars

\* Threads of one process calling polite_sleep.
RateSpec == Init /\ [][RateNext]_vars

\* Commands run one after the other on a store that starts empty.
CmdInit == CrawlInit(0) /\ RateInit /\ OtherInit

CmdSpec == CmdInit /\ [][CmdNext]_vars

\* One crawl process at the top of its loop, on any store: rows of every status, some
\* already attempted, discovered at two different times.
PickRows ==
    {[status |-> st, attempts |-> a,
      last_error |-> IF st = "failed" THEN NotBookError ELSE NULL,
      discovered_at |-> d] : st \in QueueStatuses, a \in 0..1, d \in 1..2}

PickInit ==
    /\ queue \in [SharedUrls -> PickRows]
    /\ books = <<>>
    /\ pc = [p \in Procs |-> IF p = 1 THEN "loop" ELSE "idle"]
    /\ \E a \in [workers : WorkerCounts, limit : Limits] :
          args = [p \in Procs |-> IF p = 1 THEN a ELSE NoArgs]
    /\ urls = [p \in Procs |-> <<>>]
    /\ futs = [p \in Procs |-> NoFutures]
    /\ cur = [p \in Procs |-> 0]
    /\ processed = [p \in Procs |-> 0]
    /\ starts = 1
    /\ served = [u \in URLs |-> "none"]
    /\ hist = [p \in Procs |-> NoHist]
    /\ reviews = {}
    /\ RateInit
    /\ OtherInit

PickNext == CrawlSelect(1) \/ CrawlClaim(1)

PickSpec == PickInit /\ [][PickNext]_vars

\* One call chain down to fetch_text / fetch_bytes.
FetchSpec == Init /\ [][FetchNext]_vars

\* Two crawl processes that have both started and recovered, claiming from the same
\* pending entries.
ClaimInit ==
    /\ queue = Enqueued(NumUrls)
    /\ books = <<>>
    /\ pc = [p \in Procs |-> "loop"]
    /\ args \in [Procs -> [workers : WorkerCounts, limit : Limits]]
    /\ urls = [p \in Procs |-> <<>>]
    /\ futs = [p \in Procs |-> NoFutures]
    /\ cur = [p \in Procs |-> 0]
    /\ processed = [p \in Procs |-> 0]
    /\ starts = 2
    /\ served = [u \in URLs |-> "none"]
    /\ hist = [p \in Procs |-> NoHist]
    /\ reviews = {}
    /\ RateInit
    /\ OtherInit

ClaimNext == \E p \in Procs : CrawlSelect(p) \/ CrawlClaim(p)

ClaimSpec == ClaimInit /\ [][ClaimNext]_vars

----------------------------------------------------------------------------
(* Properties *)

Resolved(u) == queue[u].status \in {"done", "failed"}

\* Process p holds url u: it has claimed it and not yet written its outcome.
Holds(p, u) ==
    /\ pc[p] \in {"pool", "mark"}
    /\ futs[p][u].st \in {"queued", "running", "finished"}

\* C1: the url lists returned by any two concurrent claims against the same pending
\* entries are disjoint, and a claimed entry has its attempts incremented exactly once.
C1_NoDoubleClaim ==
    /\ \A p, q \in Procs : p # q => hist[p].claimed \cap hist[q].claimed = {}
    /\ \A u \in DOMAIN queue :
          queue[u].attempts = IF \E p \in Procs : u \in hist[p].claimed THEN 1 ELSE 0

\* C2: with two crawl runs on one store (the recovery step of one may run while the
\* other has a batch in flight), a url is held by at most one run at a time, and no
\* url is resolved by two runs for the same claim.
C2_OneHolder ==
    /\ \A u \in DOMAIN queue : Cardinality({p \in Procs : Holds(p, u)}) <= 1
    /\ \A u \in DOMAIN queue :
          Cardinality({p \in Procs : u \in hist[p].resolved}) <= queue[u].attempts

\* C3: when a crawl run returns, every url it claimed is done or failed and was
\* resolved exactly once by it.
C3_ClaimedAreResolved ==
    pc[1] = "returned" =>
        /\ \A u \in hist[1].claimed : Resolved(u)
        /\ hist[1].resolved = hist[1].claimed
        /\ hist[1].twice = {}
        /\ processed[1] = Cardinality(hist[1].claimed)

\* C3 witness: a run with a limit has returned after resolving what it claimed,
\* leaving other urls pending.
C3_Witness ==
    /\ pc[1] = "returned"
    /\ hist[1].claimed # {}
    /\ \E u \in DOMAIN queue : queue[u].status = "pending"
    /\ \E u \in hist[1].claimed : queue[u].status = "failed"

\* C4: after a run was killed at any point, when a crawl without a limit returns,
\* every url of the queue is done or failed (none in_progress, none lost).
C4_RerunResolvesAll ==
    /\ DOMAIN queue = 1..NumSharedUrls
    /\ (pc[1] = "returned" /\ ~args[1].limit.given) => \A u \in DOMAIN queue : Resolved(u)

\* C4 witness: the second run, without a limit, has returned, and some url was
\* claimed twice (it was in_progress when the first run was killed).
C4_Witness ==
    /\ pc[1] = "returned"
    /\ ~args[1].limit.given
    /\ starts = 2
    /\ \E u \in DOMAIN queue : queue[u].attempts = 2
    /\ \A u \in DOMAIN queue : Resolved(u)

\* The step of process 1 is the recovery update.
IsRecovery == pc[1] = "recover" /\ pc'[1] = "loop"

\* C5: the recovery step turns every in_progress entry into pending and changes
\* nothing else: other statuses, the set of urls, attempts, last_error and
\* discovered_at of every entry stay as they were, and so does the books table.
C5_RecoveryFrame ==
    [][IsRecovery =>
          /\ DOMAIN queue' = DOMAIN queue
          /\ \A u \in DOMAIN queue :
                /\ queue'[u].status =
                       IF queue[u].status = "in_progress" THEN "pending" ELSE queue[u].status
                /\ queue'[u].attempts = queue[u].attempts
                /\ queue'[u].last_error = queue[u].last_error
                /\ queue'[u].discovered_at = queue[u].discovered_at
          /\ books' = books]_vars

\* C5 witness: the recovery of a second run has put back an entry the killed run had
\* claimed (pending with attempts 1), next to an entry that run had resolved.
C5_Witness ==
    /\ pc[1] = "loop"
    /\ starts = 2
    /\ processed[1] = 0
    /\ \E u \in DOMAIN queue : queue[u].status = "pending" /\ queue[u].attempts = 1
    /\ \E u \in DOMAIN queue : queue[u].status = "failed" /\ ~queue[u].last_error.null

\* C6, state part: a done entry has a books row with status ok; a failed entry has
\* a books row with status error, every extracted field empty and the error text
\* (of which last_error is the first 2000 characters).
C6_RowMatchesQueue ==
    \A u \in DOMAIN queue :
        /\ queue[u].status = "done" =>
              /\ u \in DOMAIN books
              /\ books[u].status = "ok"
              /\ books[u].error = NULL
        /\ queue[u].status = "failed" =>
              /\ u \in DOMAIN books
              /\ books[u].status = "error"
              /\ books[u].fields = EmptyFields
              /\ ~books[u].error.null
              /\ queue[u].last_error = Truncate(books[u].error)

\* C6, step part: the item row is written before the queue transition: the step that
\* makes an entry done or failed leaves books alone and finds the matching row there.
C6_RowWrittenFirst ==
    \A u \in DOMAIN queue :
        (queue'[u].status # queue[u].status /\ queue'[u].status \in {"done", "failed"}) =>
            /\ books' = books
            /\ u \in DOMAIN books
            /\ books[u].status = IF queue'[u].status = "done" THEN "ok" ELSE "error"

\* C6: for each url the crawl loop resolves exactly one outcome branch runs: ok row
\* then done, or error row (fields empty) then failed; so done implies a books row
\* with status ok, failed implies one with status error, and the item write precedes
\* the queue transition.
C6_OneOutcome == []C6_RowMatchesQueue /\ [][C6_RowWrittenFirst]_vars

\* C6 witness: a url whose first crawl was killed is failed after its second crawl,
\* beside a done url.
C6_Witness ==
    /\ \E u \in DOMAIN queue : queue[u].status = "failed" /\ queue[u].attempts = 2
    /\ \E u \in DOMAIN queue : queue[u].status = "done"

\* Process 1 ends the handling of the failed future of url u.
FailureHandled(u) ==
    /\ pc[1] = "mark"
    /\ cur[1] = u
    /\ ~Succeeded(Out(futs[1][u]))
    /\ pc'[1] # "mark"

\* C7: a failed worker (exception, fetch error, Blocked, NotTarget) does not abort the
\* run nor its siblings: its url becomes failed, the other futures and queue rows are
\* untouched by its handling, the run goes on (to the pool or to the next claim), and
\* when the batch is over every url of it is done or failed.  The run aborts only
\* when the pool cannot be built (workers = 0).
C7_FailureIsContained ==
    /\ [](pc[1] = "crashed" => args[1].workers = 0)
    /\ [](pc[1] = "loop" => \A u \in Range(urls[1]) : Resolved(u))
    /\ [][\A u \in URLs : FailureHandled(u) =>
              /\ pc'[1] \in {"pool", "loop"}
              /\ queue'[u].status = "failed"
              /\ \A v \in URLs \ {u} : futs'[1][v] = futs[1][v] /\ queue'[v] = queue[v]]_vars

\* C7 witness: a worker raised in the first batch, its sibling was resolved, and the
\* run is processing a second batch.
C7_Witness ==
    /\ pc[1] = "pool"
    /\ \E u, v \in hist[1].resolved \ Range(urls[1]) :
          /\ served[u] = "crash" /\ queue[u].status = "failed"
          /\ queue[v].status = "done"

\* C8: from N pending urls, after one crawl without a limit in which the extractor
\* returned Target for S urls and a failure for the others: the status summary says
\* done = S, failed = N - S, pending = 0, in_progress = 0; books has S ok rows and
\* N - S error rows; each failed entry's last_error is the failure's reason (the
\* DDoS-Guard text for a blocked page).
C8_EndToEnd ==
    (pc[1] = "returned" /\ ~args[1].limit.given) =>
        LET N == NumUrls
            S == Cardinality({u \in URLs : served[u] = "book"})
            sum == cmd_status(queue, books)
        IN /\ sum.queue["done"] = S
           /\ sum.queue["failed"] = N - S
           /\ sum.queue["pending"] = 0
           /\ sum.queue["in_progress"] = 0
           /\ sum.books["ok"] = S
           /\ sum.books["error"] = N - S
           /\ \A u \in DOMAIN queue :
                 /\ served[u] = "book" <=> queue[u].status = "done"
                 /\ served[u] = "ddos" =>
                       queue[u].last_error = Str("Blocked by DDoS-Guard (challenge page)", 38)
                 /\ served[u] = "listing" => queue[u].last_error = Str("Not a book page", 15)
                 /\ served[u] = "down" => queue[u].last_error = Str("Failed to fetch", 15)
                 /\ served[u] = "crash" => queue[u].last_error = Str("worker exception", 2000)

\* C8 witness: the run has returned with both successes and a blocked url.
C8_Witness ==
    /\ pc[1] = "returned"
    /\ ~args[1].limit.given
    /\ args[1].workers = 2
    /\ Cardinality({u \in URLs : served[u] = "book"}) = 2
    /\ \E u \in URLs : served[u] = "ddos" /\ queue[u].status = "failed"

Abs(x) == IF x >= 0 THEN x ELSE 0 - x

\* C9: the instants at which any two polite_sleep calls return are at least
\* min_delay apart, for every interleaving of the calling threads.
C9_ReturnsSpaced ==
    \A c, d \in calls :
        c.thread # d.thread => Abs(c.returned_at - d.returned_at) >= min_delay_s

AllReturned == \A t \in Threads : tpc[t] = "returned"

\* C10: K polite_sleep calls issued concurrently with window [a, b]: between the first
\* and the last completed call at least (K - 1) * a elapses.
C10_ElapsedAtLeast ==
    AllReturned =>
        \A c, d \in calls :
            (/\ \A e \in calls : c.returned_at <= e.returned_at
             /\ \A e \in calls : e.returned_at <= d.returned_at)
            => d.returned_at - c.returned_at >= (NumThreads - 1) * min_delay_s

----------------------------------------------------------------------------
(* Properties of the fetcher *)

\* The events of call c, and its GET attempts.
CallLog(c) == SelectSeq(fetch.log, LAMBDA e : e.call = c)
Gets(c) == SelectSeq(CallLog(c), LAMBDA e : e.ev = "get")
OkGet(e, c) == e.ev = "get" /\ ~e.resp.raised /\ e.resp.status \in OkStatuses(c)

\* C11: every request sent while crawling a url (first fetch of the page, each
\* retry, the fetch of the reviews sub-page) comes right after a polite_sleep call
\* of its own.
C11_EveryRequestPaced ==
    \A i \in DOMAIN fetch.log :
        (fetch.log[i].ev = "get" /\ fetch.log[i].call \in {"page", "reviews"}) =>
            /\ i > 1
            /\ fetch.log[i - 1].ev = "sleep"

\* C12: one fetch_text / fetch_bytes call makes at most max_retries GET attempts,
\* makes none after an attempt whose status is in ok_statuses, and calls the limiter
\* exactly once before each attempt after the first and never before the first.
C12_AttemptsAndPacing ==
    \A c \in Calls :
        LET L == CallLog(c)
        IN /\ Len(Gets(c)) <= fetch.max_retries
           /\ \A i \in DOMAIN L : OkGet(L[i], c) => i = Len(L)
           /\ \A i \in DOMAIN L : L[i].ev = (IF i % 2 = 1 THEN "get" ELSE "sleep")
           /\ L # <<>> => L[Len(L)].ev = "get"

\* C12 witness: a call returned a body at its last allowed attempt, after a failed
\* one.
C12_Witness ==
    \E c \in Calls :
        /\ fetch.outs[c].kind = "body"
        /\ fetch.max_retries = MaxRetries
        /\ Len(Gets(c)) = MaxRetries
        /\ Len(CallLog(c)) = 2 * MaxRetries - 1

\* C13: a call that has ended has one of two outcomes, whatever max_retries (0
\* included): the body of a response whose status is in ok_statuses, or one error
\* raised after every attempt failed, whose cause is the exception of the last failed
\* attempt.
C13_TwoOutcomes ==
    \A c \in Calls :
        LET G == Gets(c)
            out == fetch.outs[c]
        IN out.kind # "none" =>
              \/ /\ out.kind = "body"
                 /\ G # <<>>
                 /\ OkGet(G[Len(G)], c)
                 /\ out.status = G[Len(G)].resp.status
              \/ /\ out.kind = "error"
                 /\ \A i \in DOMAIN G : ~OkGet(G[i], c)
                 /\ G # <<>>
                 /\ out.cause = ErrOfAttempt(G[Len(G)].resp)

----------------------------------------------------------------------------
(* Properties of the store operations and of the commands *)

\* The step is a call of enqueue_urls / the reset / the queue update of a claim
\* that takes url u.
EnqueueStep == conn.open /\ conn'.open /\ conn'.called /\ conn' # conn
ResetStep == conn'.cmd = "reset" /\ conn' # conn
ClaimStep(u) ==
    /\ pc[1] = "claimed"
    /\ pc'[1] \in {"pool", "crashed"}
    /\ u \in Range(urls[1])

\* C14: enqueue_urls leaves every entry that is already in the queue as it is
\* (status, attempts, last_error, discovered_at), whatever its status, adds the
\* urls that are new, and enqueuing the same set a second time changes nothing.
C14_EnqueueIdempotent ==
    [][EnqueueStep =>
          /\ DOMAIN queue' = DOMAIN queue \cup conn'.urls
          /\ \A u \in DOMAIN queue : queue'[u] = queue[u]
          /\ conn'.urls \subseteq DOMAIN queue =>
                Cardinality(DOMAIN queue') = Cardinality(DOMAIN queue)
          /\ (conn.called /\ conn'.urls = conn.urls) => queue' = queue]_vars

\* C14 witness: a call was given a url that had been crawled and failed, and
\* inserted nothing.
C14_Witness ==
    /\ conn.called
    /\ conn.inserted = 0
    /\ \E u \in conn.urls :
          /\ queue[u].status = "failed"
          /\ queue[u].attempts = 1
          /\ ~queue[u].last_error.null

\* C15: the value enqueue_urls returns is the number of urls that call inserted,
\* whatever was done before on the same connection.
C15_ReturnsInserted == conn.called => conn.ret = conn.inserted

\* C16: a claim of size n takes min(n, number of pending entries) urls, all pending,
\* oldest discovered_at first; each taken entry becomes in_progress with attempts
\* one higher; every other entry is unchanged; with no pending entry nothing is
\* taken and nothing changes.
C16_ClaimBatch ==
    [][LET n == BatchLimit(args[1], processed[1])
           P == {u \in DOMAIN queue : queue[u].status = "pending"}
           taken == {u \in DOMAIN queue : ClaimStep(u)}
       IN /\ (pc[1] = "claimed" /\ pc'[1] # "claimed") =>
                /\ Len(urls[1]) = (IF n <= Cardinality(P) THEN n ELSE Cardinality(P))
                /\ Cardinality(taken) = Len(urls[1])
                /\ taken \subseteq P
                /\ \A i, j \in DOMAIN urls[1] : i < j =>
                      queue[urls[1][i]].discovered_at <= queue[urls[1][j]].discovered_at
                /\ \A u \in taken : \A v \in P \ taken :
                      queue[u].discovered_at <= queue[v].discovered_at
                /\ DOMAIN queue' = DOMAIN queue
                /\ \A u \in taken :
                      /\ queue'[u].status = "in_progress"
                      /\ queue'[u].attempts = queue[u].attempts + 1
                      /\ queue'[u].last_error = queue[u].last_error
                      /\ queue'[u].discovered_at = queue[u].discovered_at
                /\ \A u \in DOMAIN queue \ taken : queue'[u] = queue[u]
          /\ (pc[1] = "loop" /\ pc'[1] # "loop") =>
                /\ queue' = queue
                /\ (P = {} \/ n = 0) <=> pc'[1] = "returned"
                /\ pc'[1] = "returned" => urls'[1] = <<>>]_vars

\* C16 witness: one of several pending entries was claimed for the second time,
\* beside an entry that is in_progress for another run and a pending one left.
C16_Witness ==
    /\ pc[1] = "pool"
    /\ Len(urls[1]) = 1
    /\ queue[urls[1][1]].attempts = 2
    /\ \E u \in DOMAIN queue : queue[u].status = "pending"

\* C17: under every command other than reset an entry's status only moves
\* pending -> in_progress, in_progress -> done, in_progress -> failed and
\* in_progress -> pending: done and failed are final, and pending does not become
\* done or failed without a claim.
C17_Transitions ==
    [][~ResetStep =>
          \A u \in DOMAIN queue :
              \/ queue'[u].status = queue[u].status
              \/ <<queue[u].status, queue'[u].status>> \in
                    {<<"pending", "in_progress">>, <<"in_progress", "done">>,
                     <<"in_progress", "failed">>, <<"in_progress", "pending">>}]_vars

C20_ResetState ==
    conn.cmd = "reset" =>
        /\ books = <<>>
        /\ reviews = {}
        /\ DOMAIN queue = conn.urls
        /\ \A u \in DOMAIN queue :
              /\ queue[u].status = "pending"
              /\ queue[u].attempts = 0
              /\ queue[u].last_error = NULL

\* C20 witness: the reset found rows in books or reviews (it changed more rows than
\* the queue has) and a non-empty queue.
C20_Witness ==
    /\ conn.cmd = "reset"
    /\ DOMAIN queue # {}
    /\ conn.total_changes > Cardinality(DOMAIN queue)

----------------------------------------------------------------------------
(* Properties of the books and reviews tables *)

\* The as_completed loop writes the books row of url u.
CollectStep(u) == pc[1] = "pool" /\ pc'[1] = "mark" /\ cur'[1] = u

\* C21: after upsert_book the books table holds one row for the url, every column of
\* it being the value just written (an error row over an ok row included), and the
\* rows of the other urls are as before.
C21_UpsertOverwrites ==
    [][\A u \in URLs :
         CollectStep(u) =>
            LET row == RowOf(Out(futs[1][u]))
            IN /\ DOMAIN books' = DOMAIN books \cup {u}
               /\ books'[u].status = row.status
               /\ books'[u].error = row.error
               /\ \A f \in Fields : books'[u].fields[f] = row.fields[f]
               /\ \A v \in DOMAIN books \ {u} : books'[v] = books[v]]_vars

\* C21 witness: url 1 had an ok row (its reviews were stored with it) and a later crawl
\* of it has written an error row over it.
C21_Witness ==
    /\ 1 \in reviews
    /\ 1 \in DOMAIN books
    /\ books[1].status = "error"
    /\ books[1].fields = EmptyFields

\* The four values the identity of a review is made of
Key4(r) == <<r.book_url, r.author, r.published_at, r.text.head>>

\* No "|" in the values that are joined in front of the text
NoBar(r) == "|" \notin Range(r.book_url) \cup Range(r.author) \cup Range(r.published_at)

\* C22 as stated: the reviews table holds exactly one row for every (book_url, author,
\* published_at, first 200 characters of text) ever upserted: the same four values
\* share a row, different values have different rows.
C22_OneRowPerIdentity ==
    Cardinality(DOMAIN revs.rows) = Cardinality({Key4(r) : r \in revs.written})

\* C22: reviews with the same four values never have two rows, every row holds a
\* review as it was upserted, and reviews with different four values have different
\* rows as long as no book_url, author or published_at contains a "|".
C22_IdentityUnlessBar ==
    /\ Cardinality(DOMAIN revs.rows) <= Cardinality({Key4(r) : r \in revs.written})
    /\ \A id \in DOMAIN revs.rows : revs.rows[id] \in revs.written
    /\ (\A r \in revs.written : NoBar(r)) =>
          Cardinality(DOMAIN revs.rows) = Cardinality({Key4(r) : r \in revs.written})

\* C22 witness: two reviews that differ after the first 200 characters of their text
\* only have been upserted and share one row.
C22_Witness ==
    /\ Cardinality(revs.written) = 2
    /\ Cardinality({Key4(r) : r \in revs.written}) = 1
    /\ Cardinality(DOMAIN revs.rows) = 1

----------------------------------------------------------------------------
(* Properties of the crawl loop *)

\* C23: a crawl run ends; a round of its loop that does not end the run claims
\* pending urls only, none of them resolved earlier in the run, and has every one of
\* them done or failed when the next round starts; the run returns only with no
\* pending url found or with the limit reached.
C23_LoopTerminates ==
    /\ <>(pc[1] \in {"returned", "crashed"})
    /\ [](pc[1] = "loop" => \A u \in Range(urls[1]) : Resolved(u))
    /\ [][/\ pc[1] = "loop" /\ pc'[1] = "claimed" =>
               /\ urls'[1] # <<>>
               /\ \A u \in Range(urls'[1]) :
                     queue[u].status = "pending" /\ u \notin hist[1].resolved
          /\ pc[1] = "loop" /\ pc'[1] = "returned" =>
               \/ Pending(queue) = {}
               \/ args[1].limit.given /\ processed[1] >= args[1].limit.n]_vars

\* C23 witness: a run has returned after two rounds that claimed urls.
C23_Witness ==
    /\ pc[1] = "returned"
    /\ ~args[1].limit.given
    /\ args[1].workers = 1
    /\ processed[1] = NumUrls
    /\ Pending(queue) = {}

\* C24: a run with limit L claims and processes at most L urls; it returns between
\* two batches only, with everything it claimed done or failed.
C24_LimitRespected ==
    /\ args[1].limit.given =>
          /\ Cardinality(hist[1].claimed) <= args[1].limit.n
          /\ processed[1] <= args[1].limit.n
    /\ pc[1] = "returned" =>
          /\ \A u \in URLs : futs[1][u].st \in {"none", "consumed"}
          /\ \A u \in hist[1].claimed : queue[u].status \in {"done", "failed"}

\* C24 witness: a run with limit 1 and two workers has returned after one url, the
\* other urls still pending.
C24_Witness ==
    /\ pc[1] = "returned"
    /\ args[1] = [workers |-> 2, limit |-> Limit(1)]
    /\ Cardinality(hist[1].claimed) = 1
    /\ Cardinality(Pending(queue)) = NumUrls - 1

\* C25: at most `workers` urls are being fetched and parsed at any time.
C25_AtMostWorkers ==
    Cardinality({u \in URLs : futs[1][u].st = "running"}) <= args[1].workers

\* C25 witness: both threads of a pool of two are busy and a third url waits.
C25_Witness ==
    /\ args[1].workers = 2
    /\ Cardinality({u \in URLs : futs[1][u].st = "running"}) = 2
    /\ \E u \in URLs : futs[1][u].st = "queued"

----------------------------------------------------------------------------
(* Properties of discovery *)

\* C26: with the sitemap method and no Sitemap: entry in robots.txt the catalog walk
\* runs and its urls are the urls yielded; with an entry only the sitemap walk runs.
C26_Fallback ==
    /\ disc.method = "sitemap" /\ disc.pc \notin {"idle", "robots"} /\ disc.roots = <<>> =>
          /\ disc.pc \in {"catalog", "genre", "done", "raised"}
          /\ disc.fetched = <<>>
          /\ disc.out = cat.total
    /\ disc.roots # <<>> =>
          /\ disc.pc \in {"walk", "done", "raised"}
          /\ cat = NoCat
          /\ disc.out = SelectSeq(disc.walked, is_probable_book_url)

\* C26 witness: robots.txt listed no sitemap and the catalog walk has yielded urls.
C26_Witness ==
    /\ disc.method = "sitemap"
    /\ disc.roots = <<>>
    /\ disc.pc = "done"
    /\ disc.out # <<>>
    /\ disc.out = cat.total

\* C27: the sitemap walk yields no url twice.
C27_YieldedOnce ==
    \A i, j \in DOMAIN disc.walked : i # j => disc.walked[i] # disc.walked[j]

\* C28: a sitemap location (.xml or .gz) found in a sitemap is never yielded as an
\* item url (it is queued, fetched and expanded instead).
C28_SitemapsExpanded ==
    \A i \in DOMAIN disc.walked : disc.walked[i] \notin SitemapLocs

\* C29: the walk of a genre fetches pages 1, 2, ... in order, at most max_pages of
\* them, none after a page that failed or brought nothing new, and yields no url twice.
C29_GenreWalk ==
    /\ \A i \in DOMAIN cat.pages : cat.pages[i].page = i
    /\ Len(cat.pages) <= disc.max_pages
    /\ \A i \in DOMAIN cat.pages : i < Len(cat.pages) => cat.pages[i].got = "new"
    /\ \A i, j \in DOMAIN cat.yielded : i # j => cat.yielded[i] # cat.yielded[j]

\* C29 witness: every page of the genre brought new links and the walk stopped at
\* max_pages.
C29_Witness ==
    /\ disc.pc = "done"
    /\ disc.max_pages >= 2
    /\ Len(cat.pages) = disc.max_pages
    /\ \A i \in DOMAIN cat.pages : cat.pages[i].got = "new"

\* C30: the buffer never holds more than batch_size urls; what is passed to
\* enqueue_urls is a prefix of the discovery sequence, each url of it once, at most L
\* urls with a limit L; the return value is min(L, length of the sequence), or the
\* length without a limit.
C30_StreamingEnqueue ==
    /\ Len(enq.buf) <= enq.batch_size
    /\ enq.passed = SubSeq(enq.all, 1, Len(enq.passed))
    /\ enq.limit.given => Len(enq.passed) <= enq.limit.n
    /\ enq.pc = "returned" =>
          /\ enq.ret = IF enq.limit.given THEN Min(enq.limit.n, Len(enq.all))
                       ELSE Len(enq.all)
          /\ Len(enq.passed) = enq.ret
          /\ Range(enq.passed) \subseteq DOMAIN queue

\* C30 witness: a limit of 2 on a sequence of 3 urls with batches of 1.
C30_Witness ==
    /\ enq.pc = "returned"
    /\ enq.limit = Limit(2)
    /\ enq.batch_size = 1
    /\ Len(enq.all) = 3
    /\ enq.ret = 2

(***************************************************************************)
(* The page classification of parse_book_page                              *)
(***************************************************************************)
\* The error texts of a page judged not to be a book page
NotTargetErrors == {NotBookError} \cup {NotBookOg(og) : og \in OgUrls \ {""}}

\* C31: a fetched page with a Book or Product JSON-LD object, a book-name block or a
\* rating-factoid block is never returned as not a book page.
C31_NotTargetOnlyWithoutStructure ==
    (/\ parse.pc = "returned"
     /\ parse.html.jsonld \/ parse.html.name_block \/ parse.html.factoid_block)
    => parse.res.error \notin NotTargetErrors

\* C32: a page whose title holds ddos-guard is returned as blocked, with the error of a
\* blocked page, which is none of the errors of a page that is not a book page, whatever
\* else the page holds.
C32_ChallengeIsBlocked ==
    /\ BlockedError \notin NotTargetErrors
    /\ (parse.pc = "returned" /\ parse.html.ddos_title)
       => /\ ~parse.res.ok
          /\ parse.res.error = BlockedError

C32_Witness ==
    /\ parse.pc = "returned"
    /\ parse.html.ddos_title
    /\ parse.html.jsonld
    /\ parse.html.og_url = "/author/"
    /\ parse.res.error = BlockedError

(***************************************************************************)
(* Normalization                                                           *)
(***************************************************************************)
\* C33: the price of every book row written for a parsed book page is the output of
\* normalize_price for the price text found on the page.
C33_StoredNormalized ==
    \A u \in DOMAIN books :
        books[u].status = "ok" =>
            books[u].fields["price"] = Join(normalize_price(RawPrice))

\* C34: a normalizer returns the empty text for a text that holds no value it can
\* parse: no digit for a price, an age or a count, no number for a rating, no ISO date
\* for a date.
C34_EmptyOnUnparsable ==
    (/\ norm.pc = "returned"
     /\ CASE norm.fn = "normalize_date" -> norm.input \notin IsoDates
          [] norm.fn = "normalize_rating" -> ~ParseFloat(Replace(norm.input, ",", ".")).ok
          [] OTHER -> Range(norm.input) \cap Digits = {})
    => norm.out = <<>>

----------------------------------------------------------------------------
(* Properties of the crawl loop and of the store *)

\* The entries of the queue that are in progress
InProgressUrls(q) == {u \in DOMAIN q : q[u].status = "in_progress"}

\* The size of a claim of a run with w workers, limit l and n urls processed
ClaimSize(w, l, n) ==
    LET full == IF 3 * w >= 1 THEN 3 * w ELSE 1
    IN IF l.given /\ l.n - n < full THEN l.n - n ELSE full

\* C35: when a run claims a batch no entry is in progress; the batch is the first
\* max(1, 3 * workers) pending urls, or what the limit leaves if that is less, or
\* all the pending urls if they are fewer; and never more entries are in progress.
C35_OneBatchAtATime ==
    [][/\ (pc[1] = "claimed" /\ pc'[1] # "claimed") =>
             /\ InProgressUrls(queue) = {}
             /\ InProgressUrls(queue') = Range(urls[1])
             /\ Len(urls[1]) = Min(ClaimSize(args[1].workers, args[1].limit, processed[1]),
                                   Cardinality(Pending(queue)))
       /\ Cardinality(InProgressUrls(queue')) <= Max(1, 3 * args'[1].workers)]_vars

\* C35 witness: a run with one worker has resolved its first batch of three urls and
\* has claimed the one url that was left.
C35_Witness ==
    /\ args[1] = [workers |-> 1, limit |-> NoLimit]
    /\ pc[1] = "pool"
    /\ processed[1] = 3
    /\ Cardinality(InProgressUrls(queue)) = 1
    /\ Cardinality(hist[1].claimed) = NumUrls

\* C36: a queue entry has a last_error if and only if it is failed.
C36_ErrorIffFailed ==
    \A u \in DOMAIN queue : ~queue[u].last_error.null <=> queue[u].status = "failed"

----------------------------------------------------------------------------
(* Properties of the watermark of polite_sleep *)

\* The calls that have been assigned a slot, each with its slot
Assigned ==
    {[thread |-> t, slot |-> tlocal[t].wake_at] : t \in {x \in Threads : tpc[x] \in {"unlocked", "sleeping"}}}
    \cup {[thread |-> c.thread, slot |-> c.slot] : c \in calls}

\* The slots of any two calls are at least min_delay_s apart, and the watermark is at
\* least min_delay_s after every slot
SlotsApart ==
    /\ \A a, b \in Assigned :
          a.thread # b.thread => a.slot + min_delay_s <= b.slot \/ b.slot + min_delay_s <= a.slot
    /\ \A a \in Assigned : a.slot + min_delay_s <= next_allowed_ts

\* The step of thread t that takes its slot
TakesSlot(t) == tpc[t] = "locked" /\ tpc'[t] = "unlocked"

\* C37: the watermark changes only in the step of the thread that holds the lock, which
\* reads and advances it at once: the slot of the call is the later of its clock
\* reading and the watermark, the new watermark is the slot plus a delay between
\* min_delay_s and max_delay_s; the watermark never decreases, and the slots of two
\* calls are at least min_delay_s apart.
C37_WatermarkAtomic ==
    /\ []SlotsApart
    /\ [][/\ next_allowed_ts' >= next_allowed_ts
          /\ next_allowed_ts' # next_allowed_ts => \E t \in Threads : rate_lock = t /\ TakesSlot(t)
          /\ \A t \in Threads :
                TakesSlot(t) =>
                   /\ rate_lock = t
                   /\ tlocal'[t].wake_at =
                         (IF tlocal[t].now >= next_allowed_ts THEN tlocal[t].now
                          ELSE next_allowed_ts)
                   /\ next_allowed_ts' - tlocal'[t].wake_at \in min_delay_s..max_delay_s]_vars

\* C37 witness: two calls have returned; the second read the clock before the watermark
\* was advanced and was given the watermark, min_delay_s after the slot of the first.
C37_Witness ==
    \E a, b \in calls :
        /\ a.thread # b.thread
        /\ a.slot = 0
        /\ b.slot = min_delay_s
        /\ next_allowed_ts >= b.slot + min_delay_s

----------------------------------------------------------------------------
(* Properties of the sitemap walk *)

\* No element occurs twice in a sequence
NoRepeat(seq) == \A i, j \in DOMAIN seq : seq[i] = seq[j] => i = j

\* C38: no sitemap url is fetched twice in one walk, and a walk that has started comes
\* to its end, whatever the sitemap documents list (themselves and each other
\* included).
C38_WalkTerminates ==
    /\ [](NoRepeat(disc.fetched) /\ Range(disc.fetched) \subseteq disc.seen)
    /\ (disc.pc = "walk") ~> (disc.pc \in {"done", "raised"})

\* C38 witness: the walk has ended after two sitemaps that both listed the two of
\* them, each fetched once (a listed sitemap that was seen before is yielded).
C38_Witness ==
    /\ disc.pc = "done"
    /\ disc.roots = <<Sm1>>
    /\ disc.fetched = <<Sm1, Sm2>>
    /\ disc.walked = <<Sm1, Sm1, Sm2>>

\* C39: when a sitemap ends the walk, no sitemap is left on the worklist.
C39_WalkGoesOn ==
    (disc.pc = "raised" /\ disc.fetched # <<>>) => disc.queue = <<>>

====
